---- MODULE Spec2Model ----
(***************************************************************************)
(* A model of the sfvm bytecode interpreter of tosca: the jump-destination *)
(* analysis and its LRU cache (analysis.go), the dispatch loop and the     *)
(* result marshalling (interpreter.go), the engine entry (Run) and the     *)
(* single-step adapter (ct.go).                                            *)
(*                                                                         *)
(* Indices are 0-based as in the Go code; a Go slice s is a TLA+ sequence  *)
(* and s[i] is written s[i + 1].                                           *)
(***************************************************************************)
EXTENDS Integers, Sequences, FiniteSets, TLC

\* ------------------------------------------------------------------------
\* Opcode bytes (tosca/vm), the ones the model executes or scans.
\* ------------------------------------------------------------------------
STOP == 0
ADD == 1
POP == 80
MSTORE8 == 83
SSTORE == 85
JUMP == 86
JUMPI == 87
JUMPDEST == 91
PUSH0 == 95
PUSH1 == 96
PUSH2 == 97
PUSH29 == 124
PUSH32 == 127
DUP1 == 128
RETURN == 243
REVERT == 253
STATICCALL == 250
INVALID == 254
SELFDESTRUCT == 255

\* ------------------------------------------------------------------------
\* Bounds of the model.
\* ------------------------------------------------------------------------
\* longest code the analysis is applied to exhaustively (before padding)
MaxScanLen == 3

\* All sequences over S of length 0..n.
SeqsUpTo(S, n) == UNION {[1..k -> S] : k \in 0..n}

\* n copies of the byte b.
Repeat(b, n) == [i \in 1..n |-> b]

\* ------------------------------------------------------------------------
\* analysis.go: the jump-destination bitmap.
\* A uint64 word of the bitmap is the set of its bit positions that are 1,
\* so the mask 1 << k is the position k, w | mask is w \cup {k} and
\* w & mask != 0 is k \in w.
\* ------------------------------------------------------------------------
\* a nil *jumpDestMap
NilMap == [nil |-> TRUE]

newJumpDestMap(size) ==
    [bitmap |-> [w \in 1..((size \div 64) + 1) |-> {}], codeSize |-> size]

idxToAnalysisIdxAndMask(idx) == <<idx \div 64, idx % 64>>

isJumpDest(a, idx) ==
    IF a = NilMap THEN FALSE
    ELSE IF idx >= a.codeSize THEN FALSE
    ELSE LET im == idxToAnalysisIdxAndMask(idx)
         IN  im[2] \in a.bitmap[im[1] + 1]

\* (a variant of markJumpDest without the test of idx against the code size)
markJumpDestAnyIndex(a, idx) ==
    LET im == idxToAnalysisIdxAndMask(idx)
    IN  IF im[1] + 1 > Len(a.bitmap) THEN a
        ELSE [a EXCEPT !.bitmap[im[1] + 1] = @ \cup {im[2]}]

markJumpDest(a, idx) ==
    IF idx >= a.codeSize THEN a
    ELSE LET im == idxToAnalysisIdxAndMask(idx)
         IN  [a EXCEPT !.bitmap[im[1] + 1] = @ \cup {im[2]}]

\* (a variant of pushSkip that forgets the loop's idx++: the last data byte
\* of a PUSHn is then read as an instruction)
pushSkipNoIncrement(op, idx) == idx + (op - PUSH1 + 1)

\* the step of the scan loop after a PUSHn at idx: idx += dataSize, then the
\* loop's idx++
pushSkip(op, idx) == idx + (op - PUSH1 + 1) + 1

\* the loop of jumpDestAnalysisInternal, from index idx on. The bitmap built so
\* far is read at every iteration (its codeSize is len(code) throughout:
\* newJumpDestMap sets it and markJumpDest keeps it), which makes TLC evaluate
\* it iteration by iteration, as the Go loop does.
RECURSIVE scanFrom(_, _, _)
scanFrom(code, idx, analysis) ==
    IF idx >= Len(code) \/ analysis.codeSize # Len(code) THEN analysis
    ELSE LET op == code[idx + 1]
         IN  IF op >= PUSH1 /\ op <= PUSH32
             THEN scanFrom(code, pushSkip(op, idx), analysis)
             ELSE IF op = JUMPDEST
                  THEN scanFrom(code, idx + 1, markJumpDest(analysis, idx))
                  ELSE scanFrom(code, idx + 1, analysis)

jumpDestAnalysisInternal(code) == scanFrom(code, 0, newJumpDestMap(Len(code)))

\* ------------------------------------------------------------------------
\* interpreter.go: status, errors, gas.
\* ------------------------------------------------------------------------
statusRunning == "Running"
statusStopped == "Stopped"
statusReverted == "Reverted"
statusReturned == "Returned"
statusSelfDestructed == "SelfDestructed"
statusFailed == "Failed"

\* a status value outside the enumeration (the default case of generateResult)
StatusValues ==
    {statusRunning, statusStopped, statusReverted, statusReturned,
     statusSelfDestructed, statusFailed}

\* a nil error
NoErr == "nil"
errOutOfGas == "out of gas"
errStackUnderflow == "stack underflow"
errStackOverflow == "stack overflow"
errInvalidOpCode == "invalid opcode"
errInvalidJump == "invalid jump destination"
errStaticContextViolation == "static context violation"
errUnknownStatus == "unexpected error in interpreter, unknown status"
errUnsupportedRevision == "unsupported revision"

\* tosca.Revision: R07_Istanbul = 0 ... R15_Osaka = 7
R07_Istanbul == 0
R09_Berlin == 1
R10_London == 2
R12_Shanghai == 4
R13_Cancun == 5
R15_Osaka == 7
newestSupportedRevision == R15_Osaka

\* (a variant of useGas that checks the amount and takes nothing)
useGasFree(gas, amount) ==
    IF gas < 0 \/ amount < 0 \/ gas < amount
    THEN [gas |-> gas, err |-> errOutOfGas]
    ELSE [gas |-> gas, err |-> NoErr]

\* (a variant of useGas that takes the gas there is when the amount exceeds
\* it)
useGasTakesTheRest(gas, amount) ==
    IF gas < 0 \/ amount < 0 THEN [gas |-> gas, err |-> errOutOfGas]
    ELSE IF gas < amount THEN [gas |-> 0, err |-> errOutOfGas]
    ELSE [gas |-> gas - amount, err |-> NoErr]

\* (a variant of useGas whose charge has the wrong sign)
useGasAdds(gas, amount) ==
    IF gas < 0 \/ amount < 0 \/ gas < amount
    THEN [gas |-> gas, err |-> errOutOfGas]
    ELSE [gas |-> gas + amount, err |-> NoErr]

\* context.useGas: the gas after the charge and the error
useGas(gas, amount) ==
    IF gas < 0 \/ amount < 0 \/ gas < amount
    THEN [gas |-> gas, err |-> errOutOfGas]
    ELSE [gas |-> gas - amount, err |-> NoErr]

\* context.isAtLeast
isAtLeast(c, revision) == c.params.Revision >= revision

\* ------------------------------------------------------------------------
\* The opcode tables. computeStackUsage and getStaticGasPrices are not part
\* of the sources at hand; they follow the Ethereum opcode definitions.
\* ------------------------------------------------------------------------
maxStackSize == 1024

\* number of stack elements an opcode pops and pushes
opPops(op) ==
    CASE op = POP -> 1
      [] op = MSTORE8 -> 2
      [] op = SSTORE -> 2
      [] op = JUMP -> 1
      [] op = JUMPI -> 2
      [] op = DUP1 -> 1
      [] op = STATICCALL -> 6
      [] op = RETURN -> 2
      [] op = REVERT -> 2
      [] op = SELFDESTRUCT -> 1
      [] OTHER -> 0

opPushes(op) ==
    CASE op = PUSH0 -> 1
      [] op = PUSH1 -> 1
      [] op = PUSH2 -> 1
      [] op = DUP1 -> 2
      [] op = STATICCALL -> 1
      [] OTHER -> 0

\* computeStackUsage: from is the lowest stack position accessed and to the
\* highest one, both relative to the stack pointer before the instruction
computeStackUsage(op) ==
    LET delta == opPushes(op) - opPops(op)
    IN  [from |-> 0 - opPops(op), to |-> IF delta > 0 THEN delta ELSE 0, delta |-> delta]

\* (a variant of the limits whose max forgets the growth of the instruction)
stackLimitsNoGrowth(op) ==
    [min |-> 0 - computeStackUsage(op).from, max |-> maxStackSize]

\* _precomputedStackLimits.get(op)
stackLimits(op) ==
    LET usage == computeStackUsage(op)
    IN  [min |-> 0 - usage.from, max |-> maxStackSize - usage.to]

checkStackLimits(stackLen, op) ==
    LET limits == stackLimits(op)
    IN  IF stackLen < limits.min THEN errStackUnderflow
        ELSE IF stackLen > limits.max THEN errStackOverflow
        ELSE NoErr

\* getStaticGasPrices(revision).get(op)
staticGas(revision, op) ==
    CASE op = STOP -> 0
      [] op = POP -> 2
      [] op = MSTORE8 -> 3
      [] op = SSTORE -> 0
      [] op = JUMP -> 8
      [] op = JUMPI -> 10
      [] op = JUMPDEST -> 1
      [] op = PUSH0 -> 2
      [] op = PUSH1 -> 3
      [] op = PUSH2 -> 3
      [] op = DUP1 -> 3
      [] op = STATICCALL -> IF revision >= R09_Berlin THEN 0 ELSE 700
      [] op = RETURN -> 0
      [] op = REVERT -> 0
      [] op = SELFDESTRUCT -> 5000
      [] OTHER -> 0

\* ------------------------------------------------------------------------
\* Stack and memory (stack.go and memory.go are not part of the sources at
\* hand; they follow the specification: a stack of at most 1024 words whose
\* top is the last element, a memory of whole 32-byte words that is zero on
\* growth and charges C(w) - C(w_prev) before it grows).
\* ------------------------------------------------------------------------
NewStack == <<>>

push(stack, v) == Append(stack, v)

popped(stack, n) == SubSeq(stack, 1, Len(stack) - n)

\* the element at depth k from the top, peek(0) being the top
peek(stack, k) == stack[Len(stack) - k]

NewMemory == [store |-> <<>>, currentMemoryCost |-> 0]

\* tosca.SizeInWords
SizeInWords(n) == (n + 31) \div 32

\* the memory cost counter C(w)
memoryCost(words) == (words * words) \div 512 + 3 * words

\* grow the memory to cover offset .. offset+size-1, charging the growth
expandMemory(c, offset, size) ==
    IF size = 0 THEN [c |-> c, err |-> NoErr]
    ELSE LET words == SizeInWords(offset + size)
         IN  IF words * 32 <= Len(c.memory.store) THEN [c |-> c, err |-> NoErr]
             ELSE LET fee == memoryCost(words) - c.memory.currentMemoryCost
                      g   == useGas(c.gas, fee)
                  IN  IF g.err # NoErr THEN [c |-> c, err |-> g.err]
                      ELSE [c |-> [c EXCEPT
                                     !.gas = g.gas,
                                     !.memory = [store |-> c.memory.store \o
                                                     Repeat(0, words * 32 - Len(c.memory.store)),
                                                 currentMemoryCost |-> memoryCost(words)]],
                            err |-> NoErr]

getSlice(mem, offset, size) ==
    IF size = 0 THEN <<>> ELSE SubSeq(mem.store, offset + 1, offset + size)

\* ------------------------------------------------------------------------
\* The opcode handlers (instructions.go is not part of the sources at hand;
\* they follow section 4.6 of the specification). A handler yields the set
\* of its possible outcomes [c, status, err], one per answer of the host.
\* ------------------------------------------------------------------------
Continue(c) == {[c |-> c, status |-> statusRunning, err |-> NoErr]}

Fails(c, e) == {[c |-> c, status |-> statusRunning, err |-> e]}

opPop(c) == Continue([c EXCEPT !.stack = popped(@, 1)])

opPush0(c) ==
    IF ~isAtLeast(c, R12_Shanghai) THEN Fails(c, errInvalidOpCode)
    ELSE Continue([c EXCEPT !.stack = push(@, 0)])

\* the byte of the code at index i, 0 beyond its end
codeByte(c, i) == IF i < Len(c.code) THEN c.code[i + 1] ELSE 0

\* PUSHn: the n bytes after the opcode, big-endian, zero beyond the code
opPush(c, n) ==
    LET v == IF n = 1 THEN codeByte(c, c.pc + 1)
             ELSE codeByte(c, c.pc + 1) * 256 + codeByte(c, c.pc + 2)
    IN  Continue([c EXCEPT !.stack = push(@, v), !.pc = @ + n])

opDup(c, k) == Continue([c EXCEPT !.stack = push(@, peek(c.stack, k - 1))])

\* JUMP: pc is set to target - 1, the loop's increment then lands on target
opJump(c) ==
    LET destination == peek(c.stack, 0)
        c1 == [c EXCEPT !.stack = popped(@, 1)]
    IN  IF ~isJumpDest(c.analysis, destination) THEN Fails(c1, errInvalidJump)
        ELSE Continue([c1 EXCEPT !.pc = destination - 1])

opJumpi(c) ==
    LET destination == peek(c.stack, 0)
        condition   == peek(c.stack, 1)
        c1 == [c EXCEPT !.stack = popped(@, 2)]
    IN  IF condition = 0 THEN Continue(c1)
        ELSE IF ~isJumpDest(c.analysis, destination) THEN Fails(c1, errInvalidJump)
        ELSE Continue([c1 EXCEPT !.pc = destination - 1])

opMstore8(c) ==
    LET offset == peek(c.stack, 0)
        value  == peek(c.stack, 1)
        c1 == [c EXCEPT !.stack = popped(@, 2)]
        e  == expandMemory(c1, offset, 1)
    IN  IF e.err # NoErr THEN Fails(e.c, e.err)
        ELSE Continue([e.c EXCEPT !.memory.store[offset + 1] = value % 256])

\* The answers of the host to SetStorage that the model tells apart, each with
\* its gas cost and its refund (EIP-2200 / EIP-3529).
StorageAnswers(revision) ==
    {[cost |-> IF revision >= R09_Berlin THEN 100 ELSE 800, refund |-> 0],
     [cost |-> IF revision >= R09_Berlin THEN 2900 ELSE 5000,
      refund |-> IF revision >= R10_London THEN 4800 ELSE 15000]}

opSstore(c) ==
    LET c1 == [c EXCEPT !.stack = popped(@, 2)]
    IN  IF c.params.Static THEN Fails(c, errStaticContextViolation)
        ELSE IF c.gas <= 2300 THEN Fails(c, errOutOfGas)
        ELSE UNION {LET g == useGas(c1.gas, a.cost)
                    IN  IF g.err # NoErr THEN Fails(c1, g.err)
                        ELSE Continue([c1 EXCEPT !.gas = g.gas, !.refund = @ + a.refund])
                    : a \in StorageAnswers(c.params.Revision)}

\* The answers of the host to a nested call that the model tells apart:
\* success, output, and how much of the forwarded gas comes back.
CallAnswers(forwarded) ==
    {[Success |-> TRUE,  Output |-> <<170>>, GasLeft |-> forwarded],
     [Success |-> TRUE,  Output |-> <<>>,    GasLeft |-> 0],
     [Success |-> FALSE, Output |-> <<170>>, GasLeft |-> 0]}

\* STATICCALL: gas, address, argsOffset, argsSize, retOffset, retSize
opStaticCall(c) ==
    LET gasArg     == peek(c.stack, 0)
        argsOffset == peek(c.stack, 2)
        argsSize   == peek(c.stack, 3)
        retOffset  == peek(c.stack, 4)
        retSize    == peek(c.stack, 5)
        c1 == [c EXCEPT !.stack = popped(@, 6)]
        e1 == expandMemory(c1, argsOffset, argsSize)
        e2 == expandMemory(e1.c, retOffset, retSize)
        access == IF c.params.Revision >= R09_Berlin THEN 100 ELSE 0
        g1 == useGas(e2.c.gas, access)
        avail == g1.gas - (g1.gas \div 64)
        forwarded == IF gasArg < avail THEN gasArg ELSE avail
        g2 == useGas(g1.gas, forwarded)
    IN  IF e1.err # NoErr THEN Fails(e1.c, e1.err)
        ELSE IF e2.err # NoErr THEN Fails(e2.c, e2.err)
        ELSE IF g1.err # NoErr THEN Fails(e2.c, g1.err)
        ELSE IF g2.err # NoErr THEN Fails(e2.c, g2.err)
        ELSE {[c |-> [e2.c EXCEPT
                        !.gas = g2.gas + r.GasLeft,
                        !.returnData = r.Output,
                        !.memory.store =
                            [i \in 1..Len(@) |->
                                IF i > retOffset /\ i <= retOffset + retSize
                                             /\ i - retOffset <= Len(r.Output)
                                THEN r.Output[i - retOffset] ELSE @[i]],
                        !.stack = push(@, IF r.Success THEN 1 ELSE 0)],
               status |-> statusRunning, err |-> NoErr]
              : r \in CallAnswers(forwarded)}

\* RETURN and REVERT: the memory slice offset, size becomes the return data
opEndWithResult(c) ==
    LET offset == peek(c.stack, 0)
        size   == peek(c.stack, 1)
        c1 == [c EXCEPT !.stack = popped(@, 2)]
        e  == expandMemory(c1, offset, size)
    IN  IF e.err # NoErr THEN Fails(e.c, e.err)
        ELSE Continue([e.c EXCEPT !.returnData = getSlice(e.c.memory, offset, size)])

opStop == statusStopped

\* SELFDESTRUCT: the beneficiary; cold access to it costs 2600 from Berlin on
opSelfdestruct(c) ==
    LET c1 == [c EXCEPT !.stack = popped(@, 1)]
    IN  IF c.params.Static
        THEN {[c |-> c, status |-> statusFailed, err |-> errStaticContextViolation]}
        ELSE {LET g == useGas(c1.gas, cold)
              IN  IF g.err # NoErr
                  THEN [c |-> c1, status |-> statusFailed, err |-> g.err]
                  ELSE [c |-> [c1 EXCEPT !.gas = g.gas],
                        status |-> statusSelfDestructed, err |-> NoErr]
              : cold \in IF c.params.Revision >= R09_Berlin THEN {0, 2600} ELSE {0}}

\* ------------------------------------------------------------------------
\* interpreter.go: the dispatch loop.
\* ------------------------------------------------------------------------
\* (a variant of dispatch whose default case does nothing)
dispatchSkipsUnknown(op, c) ==
    CASE op = POP -> opPop(c)
      [] op = PUSH0 -> opPush0(c)
      [] op = PUSH1 -> opPush(c, 1)
      [] op = PUSH2 -> opPush(c, 2)
      [] op = JUMP -> opJump(c)
      [] op = JUMPDEST -> Continue(c)
      [] op = JUMPI -> opJumpi(c)
      [] op = DUP1 -> opDup(c, 1)
      [] op = MSTORE8 -> opMstore8(c)
      [] op = RETURN ->
            {[c |-> h.c, status |-> statusReturned, err |-> h.err] : h \in opEndWithResult(c)}
      [] op = REVERT ->
            {[c |-> h.c, status |-> statusReverted, err |-> h.err] : h \in opEndWithResult(c)}
      [] op = SSTORE -> opSstore(c)
      [] op = SELFDESTRUCT -> opSelfdestruct(c)
      [] op = STATICCALL -> opStaticCall(c)
      [] op = STOP -> {[c |-> c, status |-> opStop, err |-> NoErr]}
      [] OTHER -> Continue(c)

\* the switch of steps on an opcode that has charged its static gas: the
\* outcomes [c, status, err] of its case
dispatch(op, c) ==
    CASE op = POP -> opPop(c)
      [] op = PUSH0 -> opPush0(c)
      [] op = PUSH1 -> opPush(c, 1)
      [] op = PUSH2 -> opPush(c, 2)
      [] op = JUMP -> opJump(c)
      [] op = JUMPDEST -> Continue(c)
      [] op = JUMPI -> opJumpi(c)
      [] op = DUP1 -> opDup(c, 1)
      [] op = MSTORE8 -> opMstore8(c)
      [] op = RETURN ->
            {[c |-> h.c, status |-> statusReturned, err |-> h.err] : h \in opEndWithResult(c)}
      [] op = REVERT ->
            {[c |-> h.c, status |-> statusReverted, err |-> h.err] : h \in opEndWithResult(c)}
      [] op = SSTORE -> opSstore(c)
      [] op = SELFDESTRUCT -> opSelfdestruct(c)
      [] op = STATICCALL -> opStaticCall(c)
      [] op = STOP -> {[c |-> c, status |-> opStop, err |-> NoErr]}
      [] OTHER -> Fails(c, errInvalidOpCode)

\* the opcodes that have a case in the switch of the model
Dispatched ==
    {POP, PUSH0, PUSH1, PUSH2, JUMP, JUMPDEST, JUMPI, DUP1, MSTORE8, RETURN, REVERT,
     SSTORE, SELFDESTRUCT, STATICCALL, STOP}

\* the cases of the switch that call the host
HostOps == {SSTORE, SELFDESTRUCT, STATICCALL}

\* (a variant of afterHandler that does not look at oneStepOnly)
afterHandlerLoopsOn(h, oneStepOnly) ==
    IF h.err # NoErr
    THEN [c |-> h.c, status |-> h.status, err |-> h.err, exit |-> TRUE]
    ELSE [c |-> [h.c EXCEPT !.pc = @ + 1], status |-> h.status, err |-> NoErr,
          exit |-> h.status # statusRunning]

\* (a variant of afterHandler that increments pc only while the status is
\* Running)
afterHandlerIncrementsIfRunning(h, oneStepOnly) ==
    IF h.err # NoErr
    THEN [c |-> h.c, status |-> h.status, err |-> h.err, exit |-> TRUE]
    ELSE [c |-> IF h.status = statusRunning THEN [h.c EXCEPT !.pc = @ + 1] ELSE h.c,
          status |-> h.status, err |-> NoErr,
          exit |-> oneStepOnly \/ h.status # statusRunning]

\* (a variant of afterHandler that leaves pc as the handler set it)
afterHandlerNoIncrement(h, oneStepOnly) ==
    IF h.err # NoErr
    THEN [c |-> h.c, status |-> h.status, err |-> h.err, exit |-> TRUE]
    ELSE [c |-> h.c, status |-> h.status, err |-> NoErr,
          exit |-> oneStepOnly \/ h.status # statusRunning]

\* what follows the switch: an error returns, otherwise pc is incremented and
\* the loop goes on while the status is Running and oneStepOnly is not set.
\* exit tells whether steps returns.
afterHandler(h, oneStepOnly) ==
    IF h.err # NoErr
    THEN [c |-> h.c, status |-> h.status, err |-> h.err, exit |-> TRUE]
    ELSE [c |-> [h.c EXCEPT !.pc = @ + 1], status |-> h.status, err |-> NoErr,
          exit |-> oneStepOnly \/ h.status # statusRunning]

\* (a variant of stepsIteration that takes the end of the code for an
\* invalid instruction)
stepsIterationEndFails(c, oneStepOnly) ==
    IF c.pc >= Len(c.code)
    THEN {[c |-> c, status |-> statusRunning, err |-> errInvalidOpCode, exit |-> TRUE,
           op |-> -1, stackLen |-> Len(c.stack), charged |-> FALSE, ran |-> FALSE]}
    ELSE LET op  == c.code[c.pc + 1]
             lim == checkStackLimits(Len(c.stack), op)
             g   == useGas(c.gas, staticGas(c.params.Revision, op))
             did == [op |-> op, stackLen |-> Len(c.stack)]
         IN  IF lim # NoErr
             THEN {[c |-> c, status |-> statusRunning, err |-> lim, exit |-> TRUE,
                    charged |-> FALSE, ran |-> FALSE] @@ did}
             ELSE IF g.err # NoErr
             THEN {[c |-> c, status |-> statusRunning, err |-> g.err, exit |-> TRUE,
                    charged |-> FALSE, ran |-> FALSE] @@ did}
             ELSE {afterHandler(h, oneStepOnly) @@ [charged |-> TRUE, ran |-> TRUE] @@ did
                   : h \in dispatch(op, [c EXCEPT !.gas = g.gas])}

\* (a variant of stepsIteration that charges the static gas before it checks
\* the stack limits)
stepsIterationGasFirst(c, oneStepOnly) ==
    IF c.pc >= Len(c.code)
    THEN {[c |-> c, status |-> statusStopped, err |-> NoErr, exit |-> TRUE,
           op |-> -1, stackLen |-> Len(c.stack), charged |-> FALSE, ran |-> FALSE]}
    ELSE LET op  == c.code[c.pc + 1]
             lim == checkStackLimits(Len(c.stack), op)
             g   == useGas(c.gas, staticGas(c.params.Revision, op))
             did == [op |-> op, stackLen |-> Len(c.stack)]
         IN  IF g.err # NoErr
             THEN {[c |-> c, status |-> statusRunning, err |-> g.err, exit |-> TRUE,
                    charged |-> FALSE, ran |-> FALSE] @@ did}
             ELSE IF lim # NoErr
             THEN {[c |-> c, status |-> statusRunning, err |-> lim, exit |-> TRUE,
                    charged |-> FALSE, ran |-> FALSE] @@ did}
             ELSE {afterHandler(h, oneStepOnly) @@ [charged |-> TRUE, ran |-> TRUE] @@ did
                   : h \in dispatch(op, [c EXCEPT !.gas = g.gas])}

\* One pass of the loop of steps on a context whose status is Running: the
\* set of its outcomes [c, status, err, exit], with what the pass did:
\* op is the opcode fetched (-1 if none), charged whether the static gas was
\* charged, ran whether the switch was entered.
stepsIteration(c, oneStepOnly) ==
    IF c.pc >= Len(c.code)
    THEN {[c |-> c, status |-> statusStopped, err |-> NoErr, exit |-> TRUE,
           op |-> -1, stackLen |-> Len(c.stack), charged |-> FALSE, ran |-> FALSE]}
    ELSE LET op  == c.code[c.pc + 1]
             lim == checkStackLimits(Len(c.stack), op)
             g   == useGas(c.gas, staticGas(c.params.Revision, op))
             did == [op |-> op, stackLen |-> Len(c.stack)]
         IN  IF lim # NoErr
             THEN {[c |-> c, status |-> statusRunning, err |-> lim, exit |-> TRUE,
                    charged |-> FALSE, ran |-> FALSE] @@ did}
             ELSE IF g.err # NoErr
             THEN {[c |-> c, status |-> statusRunning, err |-> g.err, exit |-> TRUE,
                    charged |-> FALSE, ran |-> FALSE] @@ did}
             ELSE {afterHandler(h, oneStepOnly) @@ [charged |-> TRUE, ran |-> TRUE] @@ did
                   : h \in dispatch(op, [c EXCEPT !.gas = g.gas])}

\* (a variant of execute that turns an error into Failed only while the
\* status is Running)
executeFailsWhileRunning(status, err) ==
    IF err # NoErr /\ status = statusRunning THEN statusFailed ELSE status

\* (a variant of execute that drops the error of steps)
executeKeepsStatus(status, err) == status

\* execute: an error of steps becomes statusFailed
execute(status, err) == IF err # NoErr THEN statusFailed ELSE status

\* tosca.Result{}
ZeroResult == [Success |-> FALSE, Output |-> <<>>, GasLeft |-> 0, GasRefund |-> 0]

\* (a variant of generateResult that reports the gas left of a failed run)
generateResultKeepsGas(status, ctxt) ==
    CASE status \in {statusStopped, statusSelfDestructed} ->
            [result |-> [ZeroResult EXCEPT !.Success = TRUE, !.GasLeft = ctxt.gas,
                                         !.GasRefund = ctxt.refund],
             err |-> NoErr]
      [] status = statusReturned ->
            [result |-> [ZeroResult EXCEPT !.Success = TRUE, !.Output = ctxt.returnData,
                                         !.GasLeft = ctxt.gas, !.GasRefund = ctxt.refund],
             err |-> NoErr]
      [] status = statusReverted ->
            [result |-> [ZeroResult EXCEPT !.Output = ctxt.returnData, !.GasLeft = ctxt.gas],
             err |-> NoErr]
      [] status = statusFailed ->
            [result |-> [ZeroResult EXCEPT !.GasLeft = ctxt.gas], err |-> NoErr]
      [] OTHER -> [result |-> ZeroResult, err |-> errUnknownStatus]

\* (a variant of generateResult that reports the refund of a reverted run)
generateResultRevertRefund(status, ctxt) ==
    CASE status \in {statusStopped, statusSelfDestructed} ->
            [result |-> [ZeroResult EXCEPT !.Success = TRUE, !.GasLeft = ctxt.gas,
                                         !.GasRefund = ctxt.refund],
             err |-> NoErr]
      [] status = statusReturned ->
            [result |-> [ZeroResult EXCEPT !.Success = TRUE, !.Output = ctxt.returnData,
                                         !.GasLeft = ctxt.gas, !.GasRefund = ctxt.refund],
             err |-> NoErr]
      [] status = statusReverted ->
            [result |-> [ZeroResult EXCEPT !.Output = ctxt.returnData, !.GasLeft = ctxt.gas,
                                         !.GasRefund = ctxt.refund],
             err |-> NoErr]
      [] status = statusFailed -> [result |-> ZeroResult, err |-> NoErr]
      [] OTHER -> [result |-> ZeroResult, err |-> errUnknownStatus]

generateResult(status, ctxt) ==
    CASE status \in {statusStopped, statusSelfDestructed} ->
            [result |-> [ZeroResult EXCEPT !.Success = TRUE, !.GasLeft = ctxt.gas,
                                         !.GasRefund = ctxt.refund],
             err |-> NoErr]
      [] status = statusReturned ->
            [result |-> [ZeroResult EXCEPT !.Success = TRUE, !.Output = ctxt.returnData,
                                         !.GasLeft = ctxt.gas, !.GasRefund = ctxt.refund],
             err |-> NoErr]
      [] status = statusReverted ->
            [result |-> [ZeroResult EXCEPT !.Output = ctxt.returnData, !.GasLeft = ctxt.gas],
             err |-> NoErr]
      [] status = statusFailed -> [result |-> ZeroResult, err |-> NoErr]
      [] OTHER -> [result |-> ZeroResult, err |-> errUnknownStatus]

\* ------------------------------------------------------------------------
\* analysis.go: the LRU cache of bitmaps. A bitmap instance is a reference
\* into the heap of allocated jumpDestMaps; reference equality is equality
\* of references. cache.items is in recency order, most recently used first.
\* ------------------------------------------------------------------------
\* analysis{}: no cache configured
NilCache == [nil |-> TRUE]

\* a nil *tosca.Hash
NilHash == [nil |-> TRUE]

\* the hash of a code: one hash per code
HashOf(code) == [hash |-> code]

\* lru.New(size): fails for a size that is not positive
lruNew(size) ==
    IF size <= 0 THEN [cache |-> NilCache, err |-> "must provide a positive size"]
    ELSE [cache |-> [size |-> size, items |-> <<>>], err |-> NoErr]

lruIndex(cache, key) ==
    IF \E i \in 1..Len(cache.items) : cache.items[i].key = key
    THEN CHOOSE i \in 1..Len(cache.items) : cache.items[i].key = key
    ELSE 0

\* the items without the one at index i
lruWithout(items, i) == SubSeq(items, 1, i - 1) \o SubSeq(items, i + 1, Len(items))

\* cache.Get(key): a hit moves the entry to the front
lruGet(cache, key) ==
    LET i == lruIndex(cache, key)
    IN  IF i = 0 THEN [ok |-> FALSE, value |-> 0, cache |-> cache]
        ELSE [ok |-> TRUE, value |-> cache.items[i].value,
              cache |-> [cache EXCEPT !.items = <<cache.items[i]>> \o lruWithout(@, i)]]

\* cache.Add(key, value): an existing entry is updated and moved to the
\* front, a new one is put at the front and the oldest evicted beyond size
lruAdd(cache, key, value) ==
    LET i == lruIndex(cache, key)
        e == [key |-> key, value |-> value]
    IN  IF i # 0 THEN [cache EXCEPT !.items = <<e>> \o lruWithout(@, i)]
        ELSE LET items == <<e>> \o cache.items
             IN  [cache EXCEPT !.items =
                     IF Len(items) > cache.size THEN SubSeq(items, 1, cache.size) ELSE items]

\* (a variant of analyzeAdd that leaves out cache.Add)
analyzeAddNoInsert(cache, heap, code, codehash) ==
    LET fresh == Append(heap, jumpDestAnalysisInternal(code))
    IN  [ref |-> Len(fresh), cache |-> cache, heap |-> fresh, adds |-> 1]

\* (a variant of analyzeGet that takes the entry used last for a hit,
\* whatever its key)
analyzeGetAnyEntry(cache, heap, code, codehash) ==
    IF cache = NilCache \/ codehash = NilHash
    THEN LET fresh == Append(heap, jumpDestAnalysisInternal(code))
         IN  [done |-> TRUE, ref |-> Len(fresh), cache |-> cache, heap |-> fresh,
              gets |-> 0]
    ELSE IF cache.items # <<>>
    THEN [done |-> TRUE, ref |-> cache.items[1].value, cache |-> cache, heap |-> heap,
          gets |-> 1]
    ELSE [done |-> FALSE, ref |-> 0, cache |-> cache, heap |-> heap, gets |-> 1]

\* (a variant of analyzeGet that takes the cached path for a nil hash too,
\* under one key for all nil hashes)
analyzeGetKeepsNilHash(cache, heap, code, codehash) ==
    IF cache = NilCache
    THEN LET fresh == Append(heap, jumpDestAnalysisInternal(code))
         IN  [done |-> TRUE, ref |-> Len(fresh), cache |-> cache, heap |-> fresh,
              gets |-> 0]
    ELSE LET got == lruGet(cache, codehash)
         IN  [done |-> got.ok, ref |-> got.value, cache |-> got.cache, heap |-> heap,
              gets |-> 1]

\* (a variant of analyzeGet that looks the entry up without using it:
\* cache.Peek in place of cache.Get)
analyzeGetPeeks(cache, heap, code, codehash) ==
    IF cache = NilCache \/ codehash = NilHash
    THEN LET fresh == Append(heap, jumpDestAnalysisInternal(code))
         IN  [done |-> TRUE, ref |-> Len(fresh), cache |-> cache, heap |-> fresh,
              gets |-> 0]
    ELSE LET got == lruGet(cache, codehash)
         IN  [done |-> got.ok, ref |-> got.value, cache |-> cache, heap |-> heap,
              gets |-> 1]

\* (a variant of analyzeGet that does not return on a hit of cache.Get)
analyzeGetIgnoresHit(cache, heap, code, codehash) ==
    IF cache = NilCache \/ codehash = NilHash
    THEN LET fresh == Append(heap, jumpDestAnalysisInternal(code))
         IN  [done |-> TRUE, ref |-> Len(fresh), cache |-> cache, heap |-> fresh,
              gets |-> 0]
    ELSE LET got == lruGet(cache, codehash)
         IN  [done |-> FALSE, ref |-> got.value, cache |-> got.cache, heap |-> heap,
              gets |-> 1]

\* analysis.analyzeJumpDest up to its first return: [done, ref, cache, heap,
\* gets]. Without a cache or a hash the fresh bitmap is returned; a hit of
\* cache.Get returns the cached reference; a miss goes on to analyzeAdd.
analyzeGet(cache, heap, code, codehash) ==
    IF cache = NilCache \/ codehash = NilHash
    THEN LET fresh == Append(heap, jumpDestAnalysisInternal(code))
         IN  [done |-> TRUE, ref |-> Len(fresh), cache |-> cache, heap |-> fresh,
              gets |-> 0]
    ELSE LET got == lruGet(cache, codehash)
         IN  [done |-> got.ok, ref |-> got.value, cache |-> got.cache, heap |-> heap,
              gets |-> 1]

\* analysis.analyzeJumpDest after a miss: the bitmap is computed, put into
\* the cache and returned
analyzeAdd(cache, heap, code, codehash) ==
    LET fresh == Append(heap, jumpDestAnalysisInternal(code))
    IN  [ref |-> Len(fresh), cache |-> lruAdd(cache, codehash, Len(fresh)),
         heap |-> fresh, adds |-> 1]

\* analysis.analyzeJumpDest without interleaving: [ref, cache, heap, gets,
\* adds], the reference returned, the cache and the heap after the call and
\* the number of Get and Add calls made on the cache
analyzeJumpDest(cache, heap, code, codehash) ==
    LET g == analyzeGet(cache, heap, code, codehash)
    IN  IF g.done
        THEN [ref |-> g.ref, cache |-> g.cache, heap |-> g.heap, gets |-> g.gets,
              adds |-> 0]
        ELSE LET a == analyzeAdd(g.cache, g.heap, code, codehash)
             IN  [ref |-> a.ref, cache |-> a.cache, heap |-> a.heap, gets |-> g.gets,
                  adds |-> a.adds]

\* ------------------------------------------------------------------------
\* ct.go: the conversions between the conformance-test state and the
\* context. A ct stack is a sequence whose first element is its top
\* (Get(0)); a ct memory is a byte sequence of any length.
\* ------------------------------------------------------------------------
ctRunning == "ct.Running"
ctStopped == "ct.Stopped"
ctReverted == "ct.Reverted"
ctFailed == "ct.Failed"

convertSfvmStatusToCtStatus(status) ==
    CASE status = statusRunning -> ctRunning
      [] status \in {statusReturned, statusStopped} -> ctStopped
      [] status = statusReverted -> ctReverted
      [] status = statusSelfDestructed -> ctStopped
      [] status = statusFailed -> ctFailed
      [] OTHER -> ctFailed

\* pushes Get(size-1) first and Get(0) last
convertCtStackToSfvmStack(stack) ==
    [j \in 1..Len(stack) |-> stack[Len(stack) - j + 1]]

\* (a variant of convertSfvmStackToCtStack that keeps the order of the
\* elements: result.Set(i, stack.get(i)))
convertSfvmStackToCtStackSameOrder(stack) == stack

\* result.Set(len-i-1, stack.get(i))
convertSfvmStackToCtStack(stack) ==
    [k \in 1..Len(stack) |-> stack[Len(stack) - k + 1]]

convertCtMemoryToSfvmMemory(memory) ==
    LET words == SizeInWords(Len(memory))
    IN  [store |-> memory \o Repeat(0, words * 32 - Len(memory)),
         currentMemoryCost |-> (words * words) \div 512 + (3 * words)]

convertSfvmMemoryToCtMemory(memory) == memory.store

\* utils.ToVmParameters (not part of the sources at hand): the parameters of
\* a call on the code of the state, with the hash of that code
ToVmParameters(state) ==
    [Revision |-> state.Revision, Code |-> state.Code, CodeHash |-> HashOf(state.Code),
     Gas |-> state.Gas, Static |-> state.ReadOnly]

\* ------------------------------------------------------------------------
\* The engine (NewInterpreter, newVm) and the entry checks.
\* ------------------------------------------------------------------------
\* the capacity newVm gives the analysis cache, 1 << 30
analysisCacheSize == 1073741824

\* NewInterpreter(Config{}): the configuration handed to newVm
sanctionedConfig == [withShaCache |-> TRUE, withAnalysisCache |-> TRUE]

\* newAnalysis(size): panics when lru.New fails
\* (a variant of newAnalysis that drops the error of lru.New)
newAnalysisIgnoresError(size) ==
    [cache |-> lruNew(size).cache, panic |-> FALSE]

newAnalysis(size) ==
    LET r == lruNew(size)
    IN  [cache |-> r.cache, panic |-> r.err # NoErr]

\* newVm(config).analysis.cache
\* (a variant of newVm that leaves the analysis without a cache)
newVmWithoutAnalysis(config) == [config |-> config, cache |-> NilCache]

newVm(config) ==
    [config |-> config,
     cache  |-> IF config.withAnalysisCache THEN newAnalysis(analysisCacheSize).cache
                ELSE NilCache]

\* NewInterpreter(Config): the argument has no fields and is not looked at;
\* the error is the one of newVm, which is always nil
NewInterpreter(arg) == [vm |-> newVm(sanctionedConfig), err |-> NoErr]

\* the factory registered under "sfvm": func(any) { NewInterpreter(Config{}) }
sfvmFactory(arg) == NewInterpreter("Config{}")

\* (a variant of nothingToRun that goes on to run a state that has not
\* failed)
nothingToRunIfFailed(state) == state.Status = ctFailed

\* StepN's test of the state before it sets anything up: no need to run
\* anything that is not in a running state
nothingToRun(state) == state.Status # ctRunning

\* (a variant of the revision check that lets the revision after the newest
\* supported one pass)
unsupportedRevisionLate(revision) == revision > newestSupportedRevision + 1

\* the check of Run and of StepN: params.Revision > newestSupportedRevision
unsupportedRevision(revision) == revision > newestSupportedRevision

\* (a variant of the empty-code result that charges one unit of gas)
emptyCodeResultCharged(p) ==
    [result |-> [ZeroResult EXCEPT !.GasLeft = p.Gas - 1, !.Success = TRUE], err |-> NoErr]

\* run: the result for empty code
emptyCodeResult(p) ==
    [result |-> [ZeroResult EXCEPT !.GasLeft = p.Gas, !.Success = TRUE], err |-> NoErr]

\* (a variant of the deferred ReturnStack that is skipped for a failed call)
returnStackUnlessFailed(status, returned) ==
    IF status = statusFailed THEN returned ELSE returned + 1

\* run and StepN: defer ReturnStack(ctxt.stack), the number of stacks given
\* back to the pool after a call that ended with the status
deferredReturnStack(status, returned) == returned + 1

\* run: the execution context set up for a call
newContext(p, config, bitmap) ==
    [params |-> p, code |-> p.Code, analysis |-> bitmap, pc |-> 0, gas |-> p.Gas,
     refund |-> 0, stack |-> NewStack, memory |-> NewMemory, returnData |-> <<>>,
     withShaCache |-> config.withShaCache]

\* StepN: the execution context set up from the state
stepContext(state, p, config, bitmap) ==
    [params |-> p, code |-> p.Code, analysis |-> bitmap, pc |-> state.Pc,
     gas |-> p.Gas, refund |-> state.GasRefund,
     stack |-> convertCtStackToSfvmStack(state.Stack),
     memory |-> convertCtMemoryToSfvmMemory(state.Memory),
     returnData |-> state.LastCallReturnData,
     withShaCache |-> config.withShaCache]

\* (a variant of stepWriteBack that writes the program counter whatever the
\* status)
stepWriteBackAlwaysPc(state, status, ctxt) ==
    [state EXCEPT
        !.Status = convertSfvmStatusToCtStatus(status),
        !.Pc = ctxt.pc % 65536,
        !.Gas = ctxt.gas,
        !.GasRefund = ctxt.refund,
        !.Stack = convertSfvmStackToCtStack(ctxt.stack),
        !.Memory = convertSfvmMemoryToCtMemory(ctxt.memory),
        !.LastCallReturnData = ctxt.returnData,
        !.ReturnData = IF status \in {statusReturned, statusReverted}
                       THEN ctxt.returnData ELSE @]

\* (a variant of stepWriteBack that never writes the program counter)
stepWriteBackKeepsPc(state, status, ctxt) ==
    [state EXCEPT
        !.Status = convertSfvmStatusToCtStatus(status),
        !.Gas = ctxt.gas,
        !.GasRefund = ctxt.refund,
        !.Stack = convertSfvmStackToCtStack(ctxt.stack),
        !.Memory = convertSfvmMemoryToCtMemory(ctxt.memory),
        !.LastCallReturnData = ctxt.returnData,
        !.ReturnData = IF status \in {statusReturned, statusReverted}
                       THEN ctxt.returnData ELSE @]

\* StepN: the state updated from the context after the steps
stepWriteBack(state, status, ctxt) ==
    [state EXCEPT
        !.Status = convertSfvmStatusToCtStatus(status),
        !.Pc = IF status = statusRunning THEN ctxt.pc % 65536 ELSE @,
        !.Gas = ctxt.gas,
        !.GasRefund = ctxt.refund,
        !.Stack = convertSfvmStackToCtStack(ctxt.stack),
        !.Memory = convertSfvmMemoryToCtMemory(ctxt.memory),
        !.LastCallReturnData = ctxt.returnData,
        !.ReturnData = IF status \in {statusReturned, statusReverted}
                       THEN ctxt.returnData ELSE @]

\* StepN's loop as a function: the contexts and statuses the loop can end
\* with from turn i on, for numSteps = n
RECURSIVE stepLoop(_, _, _, _)
stepLoop(c, st, i, n) ==
    IF st # statusRunning \/ i >= n THEN {[c |-> c, status |-> st]}
    ELSE UNION {stepLoop(o.c, execute(o.status, o.err), i + 1, n) :
                    o \in stepsIteration(c, TRUE)}

\* ctAdapter.StepN as a function: the states StepN(state, n) can return (one
\* for each way the host answers)
stepNStates(state, n) ==
    LET p == ToVmParameters(state)
    IN  IF unsupportedRevision(p.Revision) \/ nothingToRun(state) THEN {state}
        ELSE {stepWriteBack(state, r.status, r.c) :
                 r \in stepLoop(stepContext(state, p, sanctionedConfig,
                                            jumpDestAnalysisInternal(p.Code)),
                                statusRunning, 0, n)}

VARIABLES
    scanCode,        \* the code handed to jumpDestAnalysisInternal
    scanResult,      \* its result, NilMap before the call
    marks,           \* the indices handed to markJumpDest on a map made by
                     \* newJumpDestMap, in order
    vmConfig,        \* the engine's config (the field config of sfvm)
    cache,           \* the engine's analysis.cache
    heap,            \* the jumpDestMaps allocated so far; a reference is an index
    cacheGets,       \* number of cache.Get calls made so far
    cacheAdds,       \* number of cache.Add calls made so far
    stacksAcquired,  \* number of stacks taken from the pool (NewStack)
    stacksReturned,  \* number of stacks given back to the pool (ReturnStack)
    phase,           \* where the caller of the engine is: "idle", "run",
                     \* "executed", "stepn", "returned"
    calls,           \* number of calls of Run and StepN made so far
    params,          \* the parameters of the Run call
    state,           \* the ct state handed to StepN, updated by it
    numSteps,        \* StepN's numSteps
    stepI,           \* StepN's loop counter i
    ctxt,            \* the execution context of the call in progress
    status,          \* the status local to steps, then the one execute returns
    err,             \* the error steps returned
    last,            \* what the last pass of the loop did
    before,          \* the context as the last pass of the loop found it
    iterations,      \* number of passes of the loop in the current call
    hostOps,         \* number of host-calling instructions dispatched
    gasCharged,      \* gas the passes of the loop took from ctxt.gas in this call
    result,          \* what Run returned: [result, err]
    stepErr,         \* the error StepN returned
    stateIn,         \* the state as it was handed to the last StepN call
    stepLog,         \* the StepN calls made so far: [state, n], the arguments
    poolAtEntry,     \* stacksAcquired and stacksReturned at the entry of the call
    callers,         \* the concurrent callers of analyzeJumpDest: where each is
                     \* in the function ("idle", "get", "add") and its arguments
    log,             \* the calls and returns of analyzeJumpDest, in order, after
                     \* the construction of the analysis where that is a step
    frames,          \* the calls suspended in a host call that has re-entered the
                     \* engine, outermost first: the variables of each call
    nestedCalls,     \* number of re-entrant calls made so far
    convIn,          \* the sfvm stack and memory handed to the conversions
    convCt,          \* their ct counterparts (convertSfvm...ToCt...)
    convOut,         \* the ct counterparts converted back (convertCt...ToSfvm...)
    gasStart,        \* the gas of a context before any call of useGas on it
    gasLevel,        \* the gas of that context now (c.gas)
    gasCalls,        \* the calls of useGas made on it: [gas, amount, err, left]
    stateDB,         \* the geth processor's stateDB: [refund, refundBackups]
    dbCalls,         \* the calls made on the stateDB, in order: the method, its
                     \* argument and result, the refund before and after, and
                     \* the host calls it made
    hostCalls        \* the snapshot calls the host (s.context) has received

scanVars == <<scanCode, scanResult, marks>>
engineVars == <<vmConfig, cache, heap, cacheGets, cacheAdds, stacksAcquired, stacksReturned>>
callVars == <<phase, calls, params, state, numSteps, stepI, ctxt, status, err, last, before,
              iterations, hostOps, gasCharged, result, stepErr, stateIn, stepLog, poolAtEntry>>
analyzeVars == <<callers, log>>
nestVars == <<frames, nestedCalls>>
convVars == <<convIn, convCt, convOut>>
gasVars == <<gasStart, gasLevel, gasCalls>>
dbVars == <<stateDB, dbCalls, hostCalls>>
vars == <<scanVars, engineVars, callVars, analyzeVars, nestVars, convVars, gasVars, dbVars>>

\* values of the variables that hold nothing yet
NoParams == [none |-> TRUE]
NoState == [none |-> TRUE]
NoCtxt == [none |-> TRUE]
NoResult == [none |-> TRUE]
NoPool == [acquired |-> 0, returned |-> 0]
NoPass == [op |-> -1, stackLen |-> 0, charged |-> FALSE, ran |-> FALSE]

ScanIdle == scanCode = <<>> /\ scanResult = NilMap /\ marks = <<>>

AnalyzeIdle == callers = <<>> /\ log = <<>>

NestIdle == frames = <<>> /\ nestedCalls = 0

NoConv == [none |-> TRUE]
ConvIdle == convIn = NoConv /\ convCt = NoConv /\ convOut = NoConv
GasIdle == gasStart = 0 /\ gasLevel = 0 /\ gasCalls = <<>>

\* a stateDB as the processor makes it: refund 0, refundBackups nil (a read
\* of a nil map and of a map without the key both give 0, so nil is written
\* as the map without keys)
NewStateDB == [refund |-> 0, refundBackups |-> <<>>]
DbIdle == stateDB = NewStateDB /\ dbCalls = <<>> /\ hostCalls = <<>>

\* the engine NewInterpreter(Config{}) builds, before any call
EngineInit ==
    /\ vmConfig = newVm(sanctionedConfig).config
    /\ cache = newVm(sanctionedConfig).cache
    /\ heap = <<>>
    /\ cacheGets = 0
    /\ cacheAdds = 0
    /\ stacksAcquired = 0
    /\ stacksReturned = 0

CallIdle ==
    /\ phase = "idle"
    /\ calls = 0
    /\ params = NoParams
    /\ state = NoState
    /\ numSteps = 0
    /\ stepI = 0
    /\ ctxt = NoCtxt
    /\ status = statusRunning
    /\ err = NoErr
    /\ last = NoPass
    /\ before = NoCtxt
    /\ iterations = 0
    /\ hostOps = 0
    /\ gasCharged = 0
    /\ result = NoResult
    /\ stepErr = NoErr
    /\ stateIn = NoState
    /\ stepLog = <<>>
    /\ poolAtEntry = NoPool

\* ------------------------------------------------------------------------
\* SpecAnalysis: jumpDestAnalysisInternal applied to every code of ScanCodes.
\* ------------------------------------------------------------------------
ScanBytes == {STOP, JUMPDEST, PUSH1, PUSH2, PUSH32}

\* what is put before a short code: nothing, or a PUSH32 and a PUSH29 whose
\* 61 data bytes are all JUMPDEST bytes, which puts the short code at index
\* 63, across the boundary of the first bitmap word
Pads == {<<>>, <<PUSH32>> \o Repeat(JUMPDEST, 32) \o <<PUSH29>> \o Repeat(JUMPDEST, 29)}

\* number of JUMPDEST bytes put after a short code: 34 outlasts the data of
\* a PUSH32
TailLens == {0, 34}

ScanCodes ==
    {p \o c \o Repeat(JUMPDEST, t) :
        p \in Pads, c \in SeqsUpTo(ScanBytes, MaxScanLen), t \in TailLens}

InitAnalysis ==
    /\ scanCode \in ScanCodes
    /\ scanResult = NilMap
    /\ marks = <<>>
    /\ EngineInit
    /\ CallIdle
    /\ AnalyzeIdle
    /\ NestIdle
    /\ ConvIdle
    /\ GasIdle
    /\ DbIdle

Analyse ==
    /\ scanResult = NilMap
    /\ scanResult' = jumpDestAnalysisInternal(scanCode)
    /\ UNCHANGED <<scanCode, marks, engineVars, callVars, analyzeVars, nestVars, convVars,
                   gasVars, dbVars>>

NextAnalysis == Analyse

SpecAnalysis == InitAnalysis /\ [][NextAnalysis]_vars

\* The instruction starts of a code: 0, and after an instruction at j the
\* byte after it and after its n data bytes when it is a PUSHn.
RECURSIVE InstrStartsFrom(_, _)
InstrStartsFrom(code, j) ==
    IF j >= Len(code) THEN {}
    ELSE LET op == code[j + 1]
             n  == IF op >= PUSH1 /\ op <= PUSH32 THEN op - PUSH1 + 1 ELSE 0
         IN  {j} \cup InstrStartsFrom(code, j + n + 1)

InstrStarts(code) == InstrStartsFrom(code, 0)

\* C1: on the result of jumpDestAnalysisInternal(code), isJumpDest(i) is true
\* iff i < len(code), code[i] is JUMPDEST and i is not inside the data bytes
\* of a PUSHn found by the left-to-right scan (i.e. i is an instruction
\* start), for every index i, also beyond the code and for truncated PUSHn.
JumpDestCorrect ==
    scanResult # NilMap =>
        \A i \in 0..(Len(scanCode) + 66) :
            isJumpDest(scanResult, i) <=>
                /\ i < Len(scanCode)
                /\ scanCode[i + 1] = JUMPDEST
                /\ i \in InstrStarts(scanCode)

\* a code that ends inside the data of a PUSH2 which hides a JUMPDEST, with
\* a real JUMPDEST in the second bitmap word
JumpDestCorrectWitness ==
    /\ scanResult # NilMap
    /\ Len(scanCode) = 66
    /\ scanCode[64] = JUMPDEST
    /\ scanCode[65] = PUSH2
    /\ scanCode[66] = JUMPDEST
    /\ isJumpDest(scanResult, 63)
    /\ ~isJumpDest(scanResult, 65)
    /\ ~isJumpDest(scanResult, 62)

\* ------------------------------------------------------------------------
\* Spec: one engine, and a caller that makes either one Run call or a series
\* of StepN calls on one ct state.
\* ------------------------------------------------------------------------
\* longest code of the codes run exhaustively
MaxCodeLen == 2

\* largest numSteps handed to StepN
MaxSteps == 2

\* number of calls of StepN in a row
MaxCalls == 2

\* the bytes of the codes run exhaustively
CodeBytes == {STOP, POP, JUMP, JUMPDEST, PUSH0, PUSH1, DUP1, RETURN, REVERT, INVALID}

\* spec section 8, scenarios 3 to 5, and a loop that grows the stack
ProgJump == <<PUSH1, 4, JUMP, STOP, JUMPDEST, STOP>>
ProgBadJump == <<PUSH1, 3, JUMP, STOP, JUMPDEST, STOP>>
ProgHiddenJumpDest == <<PUSH2, JUMPDEST, 0, JUMP>>
ProgRevert == <<PUSH1, 0, PUSH1, 0, REVERT>>
ProgLoop == <<JUMPDEST, PUSH1, 0, PUSH1, 0, JUMP>>
\* an endless loop that leaves the stack as it is: 12 gas each time round
ProgSpin == <<JUMPDEST, PUSH1, 0, JUMP>>
\* RETURN and REVERT of 65535 bytes of memory, whose expansion costs 14336 gas
ProgReturnBig == <<PUSH2, 255, 255, PUSH1, 0, RETURN>>
ProgRevertBig == <<PUSH2, 255, 255, PUSH1, 0, REVERT>>

\* conditional jumps: taken to a JUMPDEST, taken to a STOP byte, and not taken
\* with a target that is no JUMPDEST
ProgJumpi == <<PUSH1, 1, PUSH1, 6, JUMPI, STOP, JUMPDEST, STOP>>
ProgBadJumpi == <<PUSH1, 1, PUSH1, 5, JUMPI, STOP, JUMPDEST, STOP>>
ProgJumpiNotTaken == <<PUSH1, 0, PUSH1, 5, JUMPI, STOP, JUMPDEST, STOP>>

\* eight zeros, a store (refund), a nested call (return data): the stack is
\* then the success flag of the call
StoreAndCall == <<PUSH1, 0>> \o Repeat(DUP1, 7) \o <<SSTORE, STATICCALL>>

\* ends of a program after StoreAndCall: one per way for a call to end
Endings ==
    {<<>>, <<STOP>>, <<INVALID>>, <<SELFDESTRUCT>>, <<POP, POP>>,
     <<PUSH1, 1, PUSH1, 0, RETURN>>, <<PUSH1, 1, PUSH1, 0, REVERT>>,
     <<PUSH1, 7, PUSH1, 0, MSTORE8, PUSH1, 1, PUSH1, 0, RETURN>>,
     <<PUSH2, 255, 255, DUP1, REVERT>>}

Programs ==
    {ProgJump, ProgBadJump, ProgHiddenJumpDest, ProgRevert, ProgJumpi, ProgBadJumpi,
     ProgJumpiNotTaken}
        \cup {StoreAndCall \o e : e \in Endings}

\* tosca.Revision values handed to the engine: Istanbul to Osaka and the one
\* after it
Revisions == R07_Istanbul..(R15_Osaka + 1)

\* params.Gas values: negative, none, too little for two instructions, the
\* 100 of scenario 5, and plenty
GasValues == {-1, 0, 5, 100, 30000}

RunParams ==
    [Revision : Revisions, Code : SeqsUpTo(CodeBytes, MaxCodeLen),
     CodeHash : {NilHash}, Gas : GasValues, Static : {FALSE}]
    \cup
    {[Revision |-> r, Code |-> c, CodeHash |-> IF h THEN HashOf(c) ELSE NilHash,
      Gas |-> g, Static |-> s] :
        r \in {R07_Istanbul, R15_Osaka, R15_Osaka + 1}, c \in Programs \cup {<<>>, <<STOP>>},
        h \in BOOLEAN, g \in GasValues, s \in BOOLEAN}
    \cup
    {[Revision |-> R15_Osaka, Code |-> ProgLoop, CodeHash |-> HashOf(ProgLoop),
      Gas |-> 30000, Static |-> FALSE]}
    \cup
    {[Revision |-> R15_Osaka, Code |-> ProgSpin, CodeHash |-> HashOf(ProgSpin),
      Gas |-> g, Static |-> FALSE] : g \in {100, 1000}}
    \cup
    {[Revision |-> R15_Osaka, Code |-> c, CodeHash |-> HashOf(c), Gas |-> 100,
      Static |-> FALSE] : c \in {ProgReturnBig, ProgRevertBig}}

\* ct stacks (top first): none, small ones, offset 0 and size 64 for RETURN
\* and REVERT, and 1023 and 1024 zeros
CtStacks ==
    {<<>>, <<1>>, <<2, 1, 0>>, <<0, 64>>, Repeat(0, maxStackSize - 1), Repeat(0, maxStackSize)}

StepCodes ==
    {<<>>, <<STOP>>, <<POP>>, <<PUSH1, 1>>, <<DUP1, DUP1>>, <<JUMP, JUMPDEST, JUMPDEST>>,
     <<JUMPI, JUMPDEST, JUMPDEST>>, <<STATICCALL, STOP>>, <<MSTORE8, STOP>>,
     <<RETURN>>, <<REVERT, STOP>>, <<SSTORE, STOP>>, <<INVALID>>, <<SELFDESTRUCT>>,
     <<JUMPDEST, STOP>>}

\* the states handed to StepN: running ones, and ones that have ended
CtStates ==
    {[Status |-> ctRunning, Revision |-> r, Code |-> c, Pc |-> pc, Gas |-> g,
      GasRefund |-> m.refund, Stack |-> stk, Memory |-> m.memory,
      LastCallReturnData |-> m.data, ReturnData |-> <<>>, ReadOnly |-> FALSE] :
        r \in {R15_Osaka, R15_Osaka + 1}, c \in StepCodes, pc \in {0, 1}, g \in {5, 30000},
        stk \in CtStacks,
        m \in {[refund |-> 0, memory |-> <<>>, data |-> <<>>],
               [refund |-> 7, memory |-> <<9>>, data |-> <<187>>]}}
    \cup
    {[Status |-> st, Revision |-> r, Code |-> <<PUSH1, 1>>, Pc |-> 0, Gas |-> 100,
      GasRefund |-> 7, Stack |-> <<1>>, Memory |-> <<9>>,
      LastCallReturnData |-> <<187>>, ReturnData |-> <<>>, ReadOnly |-> FALSE] :
        st \in {ctStopped, ctReverted, ctFailed}, r \in {R15_Osaka, R15_Osaka + 1}}

Init ==
    /\ ScanIdle
    /\ AnalyzeIdle
    /\ NestIdle
    /\ ConvIdle
    /\ GasIdle
    /\ DbIdle
    /\ EngineInit
    /\ phase = "idle"
    /\ calls = 0
    /\ \/ params \in RunParams /\ state = NoState
       \/ params = NoParams /\ state \in CtStates
    /\ numSteps = 0
    /\ stepI = 0
    /\ ctxt = NoCtxt
    /\ status = statusRunning
    /\ err = NoErr
    /\ last = NoPass
    /\ before = NoCtxt
    /\ iterations = 0
    /\ hostOps = 0
    /\ gasCharged = 0
    /\ result = NoResult
    /\ stepErr = NoErr
    /\ stateIn = NoState
    /\ stepLog = <<>>
    /\ poolAtEntry = NoPool

\* sfvm.Run and the entry of run: the revision check, the empty-code
\* shortcut, the set-up of the context
Run ==
    /\ phase = "idle"
    /\ calls = 0
    /\ params # NoParams
    /\ calls' = calls + 1
    /\ poolAtEntry' = [acquired |-> stacksAcquired, returned |-> stacksReturned]
    /\ IF unsupportedRevision(params.Revision)
       THEN /\ result' = [result |-> ZeroResult, err |-> errUnsupportedRevision,
                          revision |-> params.Revision]
            /\ phase' = "returned"
            /\ UNCHANGED <<engineVars, ctxt>>
       ELSE IF Len(params.Code) = 0
       THEN /\ result' = emptyCodeResult(params)
            /\ phase' = "returned"
            /\ UNCHANGED <<engineVars, ctxt>>
       ELSE LET a == analyzeJumpDest(cache, heap, params.Code, params.CodeHash)
            IN  /\ ctxt' = newContext(params, vmConfig, a.heap[a.ref])
                /\ cache' = a.cache
                /\ heap' = a.heap
                /\ cacheGets' = cacheGets + a.gets
                /\ cacheAdds' = cacheAdds + a.adds
                /\ stacksAcquired' = stacksAcquired + 1
                /\ phase' = "run"
                /\ UNCHANGED <<vmConfig, stacksReturned, result>>
    /\ UNCHANGED <<scanVars, analyzeVars, nestVars, convVars, gasVars, dbVars, params, state, numSteps, stepI, status,
                   err, last, before, iterations, hostOps, gasCharged, stepErr, stateIn, stepLog>>

\* what a pass of the loop leaves in the variables of the call
Pass(o) ==
    /\ ctxt' = o.c
    /\ status' = o.status
    /\ err' = o.err
    /\ last' = [op |-> o.op, stackLen |-> o.stackLen, charged |-> o.charged, ran |-> o.ran]
    /\ before' = ctxt
    /\ iterations' = iterations + 1
    /\ hostOps' = hostOps + (IF o.ran /\ o.op \in HostOps THEN 1 ELSE 0)
    /\ gasCharged' = gasCharged + (ctxt.gas - o.c.gas)

\* run: one pass of the loop of steps under execute(&ctxt, false)
RunIteration ==
    /\ phase = "run"
    /\ \E o \in stepsIteration(ctxt, FALSE) :
          /\ Pass(o)
          /\ phase' = IF o.exit THEN "executed" ELSE "run"
    /\ UNCHANGED <<scanVars, analyzeVars, nestVars, convVars, gasVars, dbVars, engineVars, calls, params, state, numSteps, stepI, result,
                   stepErr, stateIn, stepLog, poolAtEntry>>

\* run: execute has returned; generateResult and the deferred ReturnStack
RunReturn ==
    /\ phase = "executed"
    /\ status' = execute(status, err)
    /\ result' = generateResult(execute(status, err), ctxt)
    /\ stacksReturned' = deferredReturnStack(execute(status, err), stacksReturned)
    /\ phase' = "returned"
    /\ UNCHANGED <<scanVars, analyzeVars, nestVars, convVars, gasVars, dbVars, cache, heap, cacheGets, cacheAdds, stacksAcquired, vmConfig, calls,
                   params, state, numSteps, stepI, ctxt, err, last, before, iterations,
                   hostOps, gasCharged, stepErr, stateIn, stepLog, poolAtEntry>>

\* ctAdapter.StepN up to its loop: the revision check, the shortcut for a
\* state that is not running, the set-up of the context
StepN(n) ==
    /\ phase = "idle"
    /\ calls < MaxCalls
    /\ state # NoState
    /\ calls' = calls + 1
    /\ numSteps' = n
    /\ stepI' = 0
    /\ last' = NoPass
    /\ before' = NoCtxt
    /\ iterations' = 0
    /\ hostOps' = 0
    /\ gasCharged' = 0
    /\ stateIn' = state
    /\ stepLog' = Append(stepLog, [state |-> state, n |-> n])
    /\ poolAtEntry' = [acquired |-> stacksAcquired, returned |-> stacksReturned]
    /\ err' = NoErr
    /\ status' = statusRunning
    /\ LET p == ToVmParameters(state)
       IN  IF unsupportedRevision(p.Revision)
           THEN /\ stepErr' = errUnsupportedRevision
                /\ phase' = "idle"
                /\ UNCHANGED <<engineVars, ctxt>>
           ELSE IF nothingToRun(state)
           THEN /\ stepErr' = NoErr
                /\ phase' = "idle"
                /\ UNCHANGED <<engineVars, ctxt>>
           ELSE LET a == analyzeJumpDest(cache, heap, p.Code, p.CodeHash)
                IN  /\ ctxt' = stepContext(state, p, vmConfig, a.heap[a.ref])
                    /\ cache' = a.cache
                    /\ heap' = a.heap
                    /\ cacheGets' = cacheGets + a.gets
                    /\ cacheAdds' = cacheAdds + a.adds
                    /\ stacksAcquired' = stacksAcquired + 1
                    /\ stepErr' = NoErr
                    /\ phase' = "stepn"
                    /\ UNCHANGED <<vmConfig, stacksReturned>>
    /\ UNCHANGED <<scanVars, analyzeVars, nestVars, convVars, gasVars, dbVars, params, state, result>>

\* StepN: a pass of the loop of steps under status = execute(ctxt, true) in
\* a turn of StepN's loop; the turn ends (i++) when steps returns
StepNIteration ==
    /\ phase = "stepn"
    /\ status = statusRunning
    /\ stepI < numSteps
    /\ \E o \in stepsIteration(ctxt, TRUE) :
          /\ Pass([o EXCEPT !.status = IF o.exit THEN execute(o.status, o.err) ELSE @])
          /\ stepI' = IF o.exit THEN stepI + 1 ELSE stepI
    /\ UNCHANGED <<scanVars, analyzeVars, nestVars, convVars, gasVars, dbVars, engineVars, phase, calls, params, state, numSteps, result,
                   stepErr, stateIn, stepLog, poolAtEntry>>

\* StepN: after its loop, the state is updated and the stack returned
StepNReturn ==
    /\ phase = "stepn"
    /\ ~(status = statusRunning /\ stepI < numSteps)
    /\ state' = stepWriteBack(state, status, ctxt)
    /\ stacksReturned' = deferredReturnStack(status, stacksReturned)
    /\ phase' = "idle"
    /\ UNCHANGED <<scanVars, analyzeVars, nestVars, convVars, gasVars, dbVars, cache, heap, cacheGets, cacheAdds, stacksAcquired, vmConfig, calls,
                   params, numSteps, stepI, ctxt, status, err, last, before, iterations,
                   hostOps, gasCharged, result, stepErr, stateIn, stepLog, poolAtEntry>>

Next ==
    \/ Run
    \/ RunIteration
    \/ RunReturn
    \/ \E n \in 0..MaxSteps : StepN(n)
    \/ StepNIteration
    \/ StepNReturn

Spec == Init /\ [][Next]_vars

\* ------------------------------------------------------------------------
\* Properties of Spec.
\* ------------------------------------------------------------------------
\* Run has returned after executing the loop
RunExecuted == phase = "returned" /\ params # NoParams /\ ctxt # NoCtxt

\* C2: a run that ends Failed (an error of the stack-limit check, of the
\* static gas charge or of a handler) returns Success = false, GasLeft = 0,
\* GasRefund = 0 and no output, whatever the context holds.
FailedResultIsZero ==
    RunExecuted /\ (status = statusFailed \/ err # NoErr) =>
        /\ status = statusFailed
        /\ result.err = NoErr
        /\ result.result.Success = FALSE
        /\ result.result.GasLeft = 0
        /\ result.result.GasRefund = 0
        /\ result.result.Output = <<>>

\* a run that fails on an invalid opcode while its context holds gas, a
\* refund and return data
FailedResultIsZeroWitness ==
    /\ RunExecuted
    /\ status = statusFailed
    /\ err = errInvalidOpCode
    /\ ctxt.gas > 0
    /\ ctxt.refund > 0
    /\ ctxt.returnData # <<>>
    /\ result.result = ZeroResult

\* C3: a run that ends Reverted returns Success = false, the context's
\* return data, the context's remaining gas, which is params.gas minus the
\* gas charged (94 of 100 in scenario 5), and GasRefund = 0.
RevertedResult ==
    RunExecuted /\ status = statusReverted =>
        /\ result.err = NoErr
        /\ result.result.Success = FALSE
        /\ result.result.Output = ctxt.returnData
        /\ result.result.GasLeft = ctxt.gas
        /\ result.result.GasLeft = params.Gas - gasCharged
        /\ params.Code = ProgRevert /\ params.Gas = 100 => result.result.GasLeft = 94
        /\ result.result.GasRefund = 0

\* a reverted run whose context holds a refund and return data
RevertedResultWitness ==
    /\ RunExecuted
    /\ status = statusReverted
    /\ ctxt.refund > 0
    /\ ctxt.returnData # <<>>
    /\ gasCharged > 0
    /\ result.result.GasLeft > 0
    /\ result.result.GasRefund = 0

\* C4: Stopped and SelfDestructed give Success = true, no output, the
\* context's gas and refund; Returned gives the same with the context's
\* return data as output; run never gets the unknown-status error of
\* generateResult, and never marshals Running.
SuccessfulResult ==
    RunExecuted =>
        /\ result.err = NoErr
        /\ status # statusRunning
        /\ status \in {statusStopped, statusSelfDestructed} =>
              result.result = [Success |-> TRUE, Output |-> <<>>, GasLeft |-> ctxt.gas,
                               GasRefund |-> ctxt.refund]
        /\ status = statusReturned =>
              result.result = [Success |-> TRUE, Output |-> ctxt.returnData,
                               GasLeft |-> ctxt.gas, GasRefund |-> ctxt.refund]

\* a returned run with output and a refund
SuccessfulResultWitness ==
    /\ RunExecuted
    /\ status = statusReturned
    /\ result.result.Output = <<7>>
    /\ result.result.GasRefund > 0
    /\ result.result.Success

\* C5 as stated: for every params.gas, GasLeft <= params.gas, and GasLeft = 0
\* when the run ends Failed.
GasMonotonicAnyGas ==
    phase = "returned" /\ params # NoParams /\ result.err = NoErr =>
        /\ result.result.GasLeft <= params.Gas
        /\ RunExecuted /\ status = statusFailed => result.result.GasLeft = 0

\* C5 as amended: for params.gas >= 0, GasLeft <= params.gas; and GasLeft = 0
\* whenever the run ends Failed, for every params.gas.
GasMonotonic ==
    phase = "returned" /\ params # NoParams /\ result.err = NoErr =>
        /\ params.Gas >= 0 => result.result.GasLeft <= params.Gas
        /\ RunExecuted /\ status = statusFailed => result.result.GasLeft = 0

\* a run that took gas and returned less than it was given, after a nested
\* call gave gas back
GasMonotonicWitness ==
    /\ RunExecuted
    /\ params.Gas = 30000
    /\ hostOps >= 2
    /\ result.result.GasLeft > 0
    /\ result.result.GasLeft < params.Gas

\* the net growth of the stack by an opcode
NetGrowth(op) == opPushes(op) - opPops(op)

\* C6: a handler runs only on a stack of at least the opcode's pop count and
\* of at most maxStackSize minus its net growth; the stack stays within
\* 0..1024; below the lower bound the pass fails with stack underflow, above
\* the upper bound with stack overflow, and the handler does not run.
StackBounds ==
    /\ ctxt # NoCtxt => Len(ctxt.stack) \in 0..maxStackSize
    /\ last.ran =>
          /\ last.stackLen >= opPops(last.op)
          /\ last.stackLen <= maxStackSize - NetGrowth(last.op)
    /\ last.op # -1 /\ last.stackLen < opPops(last.op) =>
          err = errStackUnderflow /\ ~last.ran
    /\ last.op # -1 /\ last.stackLen > maxStackSize - NetGrowth(last.op) =>
          err = errStackOverflow /\ ~last.ran

\* a push on a full stack, refused
StackBoundsWitness ==
    /\ last.op = PUSH1
    /\ last.stackLen = maxStackSize
    /\ err = errStackOverflow
    /\ ~last.ran
    /\ Len(ctxt.stack) = maxStackSize

\* C9: Run and StepN with a revision above Osaka return the
\* unsupported-revision error with that revision and execute nothing: no
\* pass of the loop, no gas charged, no stack acquired, the cache neither
\* read nor changed, the state of StepN unchanged; the check comes before the
\* empty-code and the not-running shortcuts; revisions up to Osaka pass.
UnsupportedRevisionRefused ==
    /\ phase = "returned" /\ params # NoParams /\ params.Revision > R15_Osaka =>
          /\ result.err = errUnsupportedRevision
          /\ result.revision = params.Revision
          /\ result.result = ZeroResult
    /\ phase = "returned" /\ params # NoParams /\ params.Revision <= R15_Osaka =>
          result.err # errUnsupportedRevision
    /\ state # NoState /\ calls > 0 /\ state.Revision > R15_Osaka =>
          /\ stepErr = errUnsupportedRevision
          /\ state = stateIn
          /\ phase = "idle"
    /\ state # NoState /\ calls > 0 /\ state.Revision <= R15_Osaka => stepErr = NoErr
    /\ ( \/ params # NoParams /\ params.Revision > R15_Osaka
         \/ state # NoState /\ state.Revision > R15_Osaka )
       => /\ ctxt = NoCtxt
          /\ iterations = 0
          /\ gasCharged = 0
          /\ stacksAcquired = 0
          /\ cacheGets = 0
          /\ cacheAdds = 0
          /\ cache = newVm(sanctionedConfig).cache
          /\ heap = <<>>

\* Run refused for the revision after Osaka on a code that is not empty
UnsupportedRevisionRefusedWitness ==
    /\ phase = "returned"
    /\ params # NoParams
    /\ params.Revision = R15_Osaka + 1
    /\ Len(params.Code) > 0
    /\ params.CodeHash # NilHash
    /\ result.err = errUnsupportedRevision

\* C10: run on empty code under a supported revision returns Success = true,
\* GasLeft = params.gas, GasRefund = 0 and no output, for every gas value,
\* and acquires no stack, leaves the cache alone and calls no host.
EmptyCodeIsNoOp ==
    phase = "returned" /\ params # NoParams /\ params.Code = <<>>
            /\ params.Revision <= R15_Osaka =>
        /\ result.err = NoErr
        /\ result.result = [Success |-> TRUE, Output |-> <<>>, GasLeft |-> params.Gas,
                            GasRefund |-> 0]
        /\ ctxt = NoCtxt
        /\ stacksAcquired = 0
        /\ cacheGets = 0
        /\ cacheAdds = 0
        /\ cache = newVm(sanctionedConfig).cache
        /\ heap = <<>>
        /\ iterations = 0
        /\ hostOps = 0

\* empty code with a code hash and plenty of gas
EmptyCodeIsNoOpWitness ==
    /\ phase = "returned"
    /\ params # NoParams
    /\ params.Code = <<>>
    /\ params.CodeHash # NilHash
    /\ params.Gas = 30000
    /\ result.result.GasLeft = 30000
    /\ result.result.Success

\* ------------------------------------------------------------------------
\* SpecCache: callers of analyzeJumpDest running concurrently on the one
\* analysis of an engine. cache.Get and cache.Add are each one step (the LRU
\* locks around each call); the steps of different callers interleave
\* freely, also between a caller's Get and its Add.
\* ------------------------------------------------------------------------
\* number of concurrent callers
MaxCallers == 2

\* number of analyzeJumpDest calls made in a behaviour
MaxAnalyzeCalls == 3

Callers == 1..MaxCallers

CacheCodes == {<<STOP>>, <<JUMPDEST, STOP>>}

\* the hashes a caller passes with a code: nil, or the hash of the code
CacheHashes(code) == {NilHash, HashOf(code)}

\* capacities of the cache: the smallest one and the engine's
CacheSizes == {1, analysisCacheSize}

IdleCaller == [pc |-> "idle", code |-> <<>>, codehash |-> NilHash]

CallEvent(t, code, codehash) ==
    [kind |-> "call", caller |-> t, code |-> code, codehash |-> codehash, ref |-> 0,
     computed |-> FALSE]

\* the return of a call: the reference returned and whether the call
\* computed the bitmap itself
RetEvent(t, ref, computed) ==
    [kind |-> "ret", caller |-> t, code |-> callers[t].code,
     codehash |-> callers[t].codehash, ref |-> ref, computed |-> computed]

CallsMade == Cardinality({i \in 1..Len(log) : log[i].kind = "call"})

InitCache ==
    /\ cache \in {NilCache} \cup {newAnalysis(n).cache : n \in CacheSizes}
    /\ vmConfig = [withShaCache |-> TRUE, withAnalysisCache |-> cache # NilCache]
    /\ heap = <<>>
    /\ cacheGets = 0
    /\ cacheAdds = 0
    /\ stacksAcquired = 0
    /\ stacksReturned = 0
    /\ callers = [t \in Callers |-> IdleCaller]
    /\ log = <<>>
    /\ ScanIdle
    /\ CallIdle
    /\ NestIdle
    /\ ConvIdle
    /\ GasIdle
    /\ DbIdle

\* a caller enters analyzeJumpDest(code, codehash); the callers are numbered
\* in the order of their first call
Call(t, code, codehash) ==
    /\ callers[t].pc = "idle"
    /\ \A u \in 1..(t - 1) : \E i \in 1..Len(log) : log[i].caller = u
    /\ CallsMade < MaxAnalyzeCalls
    /\ callers' = [callers EXCEPT ![t] = [pc |-> "get", code |-> code,
                                          codehash |-> codehash]]
    /\ log' = Append(log, CallEvent(t, code, codehash))
    /\ UNCHANGED <<scanVars, engineVars, callVars, nestVars, convVars, gasVars, dbVars>>

\* the caller runs up to the first return: the nil checks and cache.Get
Get(t) ==
    /\ callers[t].pc = "get"
    /\ LET g == analyzeGet(cache, heap, callers[t].code, callers[t].codehash)
       IN  /\ cache' = g.cache
           /\ heap' = g.heap
           /\ cacheGets' = cacheGets + g.gets
           /\ IF g.done
              THEN /\ callers' = [callers EXCEPT ![t] = IdleCaller]
                   /\ log' = Append(log, RetEvent(t, g.ref, g.gets = 0))
              ELSE /\ callers' = [callers EXCEPT ![t].pc = "add"]
                   /\ log' = log
    /\ UNCHANGED <<scanVars, callVars, nestVars, convVars, gasVars, dbVars, vmConfig, cacheAdds, stacksAcquired, stacksReturned>>

\* the caller that missed computes, calls cache.Add and returns
Add(t) ==
    /\ callers[t].pc = "add"
    /\ LET a == analyzeAdd(cache, heap, callers[t].code, callers[t].codehash)
       IN  /\ cache' = a.cache
           /\ heap' = a.heap
           /\ cacheAdds' = cacheAdds + a.adds
           /\ callers' = [callers EXCEPT ![t] = IdleCaller]
           /\ log' = Append(log, RetEvent(t, a.ref, TRUE))
    /\ UNCHANGED <<scanVars, callVars, nestVars, convVars, gasVars, dbVars, vmConfig, cacheGets, stacksAcquired, stacksReturned>>

NextCache ==
    \/ \E t \in Callers, code \in CacheCodes :
           \E codehash \in CacheHashes(code) : Call(t, code, codehash)
    \/ \E t \in Callers : Get(t)
    \/ \E t \in Callers : Add(t)

SpecCache == InitCache /\ [][NextCache]_vars

\* number of calls that have entered and not returned after i events
InProgressAt(i) ==
    Cardinality({j \in 1..i : log[j].kind = "call"})
        - Cardinality({j \in 1..i : log[j].kind = "ret"})

\* the index of the return of the call at index b, 0 while it is in progress
RetOf(b) ==
    LET S == {c \in (b + 1)..Len(log) :
                 log[c].kind = "ret" /\ log[c].caller = log[b].caller}
    IN  IF S = {} THEN 0 ELSE CHOOSE c \in S : \A d \in S : c <= d

\* call, return, call, return of the same code and non-nil hash at i..i+3
\* with no call in progress before i
TwoSuccessiveCalls(i) ==
    /\ i + 3 <= Len(log)
    /\ InProgressAt(i - 1) = 0
    /\ log[i].kind = "call" /\ log[i + 1].kind = "ret"
    /\ log[i + 2].kind = "call" /\ log[i + 3].kind = "ret"
    /\ log[i].codehash # NilHash
    /\ log[i + 2].codehash = log[i].codehash
    /\ log[i + 2].code = log[i].code

\* C7: with a configured cache and a non-nil hash, two successive calls
\* analyzeJumpDest(code, hash) with no other call in between or in progress
\* return the same reference; the second does not compute, and the first
\* computes (and inserts) when the hash was not passed before.
CachingIdentity ==
    cache # NilCache =>
        \A i \in 1..Len(log) :
            TwoSuccessiveCalls(i) =>
                /\ log[i + 3].ref = log[i + 1].ref
                /\ ~log[i + 3].computed
                /\ (\A j \in 1..(i - 1) : log[j].codehash # log[i].codehash)
                       => log[i + 1].computed

\* a miss that inserts followed by a hit on the inserted instance, in a
\* cache of capacity 1 that held another hash before
CachingIdentityWitness ==
    /\ cache # NilCache
    /\ cache.size = 1
    /\ \E i \in 3..Len(log) :
           /\ TwoSuccessiveCalls(i)
           /\ log[1].codehash \notin {NilHash, log[i].codehash}
           /\ log[i + 1].computed
           /\ log[i + 3].ref = log[i + 1].ref
    /\ cacheAdds = 2

\* the capacity is large enough that nothing is evicted
NoEviction == cache # NilCache /\ cache.size >= Cardinality(CacheCodes)

EventsFor(h, q, kind) == {j \in 1..q : log[j].kind = kind /\ log[j].codehash = h}

\* after q events some call for h has returned and none is in progress
QuiescentFor(h, q) ==
    /\ EventsFor(h, q, "ret") # {}
    /\ Cardinality(EventsFor(h, q, "call")) = Cardinality(EventsFor(h, q, "ret"))

\* the last return for h among the first q events
LastRetFor(h, q) ==
    CHOOSE j \in EventsFor(h, q, "ret") : \A k \in EventsFor(h, q, "ret") : k <= j

JumpTaken ==
    /\ last.ran
    /\ \/ last.op = JUMP
       \/ last.op = JUMPI /\ peek(before.stack, 1) # 0

\* the target of the jump of the last pass
JumpTarget == peek(before.stack, 0)

\* C11: after JUMP, or JUMPI with a non-zero condition, to a target t for
\* which isJumpDest(t) holds on the context's bitmap, execution goes on and
\* pc = t, so that the next fetch reads code[t], a JUMPDEST byte; when
\* isJumpDest(t) does not hold the pass fails with the invalid-jump error and
\* the call ends Failed, run returning GasLeft = 0.
JumpLandsOnJumpDest ==
    JumpTaken =>
        IF isJumpDest(before.analysis, JumpTarget)
        THEN /\ err = NoErr
             /\ status = statusRunning
             /\ ctxt.pc = JumpTarget
             /\ JumpTarget < Len(ctxt.code)
             /\ ctxt.code[ctxt.pc + 1] = JUMPDEST
             /\ JumpTarget \in InstrStarts(ctxt.code)
        ELSE /\ err = errInvalidJump
             /\ status \in {statusRunning, statusFailed}
             /\ phase = "returned" =>
                   /\ status = statusFailed
                   /\ result.err = NoErr
                   /\ ~result.result.Success
                   /\ result.result.GasLeft = 0
             /\ phase = "idle" => status = statusFailed /\ state.Status = ctFailed

\* a conditional jump taken to the JUMPDEST at 6
JumpLandsOnJumpDestWitness ==
    /\ JumpTaken
    /\ last.op = JUMPI
    /\ before.pc = 4
    /\ ctxt.pc = 6
    /\ ctxt.code[7] = JUMPDEST
    /\ status = statusRunning

\* ------------------------------------------------------------------------
\* SpecNested: the calls of Spec, and calls of Run made by the host while a
\* call is inside the handler of STATICCALL (tosca.RunContext.Call re-enters
\* the engine). The call that is suspended keeps its context and its stack;
\* the nested call runs on the same engine, with its own context.
\* ------------------------------------------------------------------------
\* number of calls that may be suspended at once
MaxDepth == 2

\* number of re-entrant calls in a behaviour
MaxNestedCalls == 2

\* the parameters of the nested calls: empty code, a code that stops, one
\* that reverts, one that makes a nested call itself and then fails (a
\* SELFDESTRUCT in a static call), and an unsupported revision
NestedParams ==
    {[Revision |-> r, Code |-> c, CodeHash |-> HashOf(c), Gas |-> 30000, Static |-> TRUE] :
        r \in {R15_Osaka},
        c \in {<<>>, <<STOP>>, ProgRevert,
               <<PUSH1, 0>> \o Repeat(DUP1, 5) \o <<STATICCALL, SELFDESTRUCT>>}}
    \cup
    {[Revision |-> R15_Osaka + 1, Code |-> <<STOP>>, CodeHash |-> NilHash, Gas |-> 30000,
      Static |-> TRUE]}

\* the variables of the call in progress
CallFrame ==
    [phase |-> phase, calls |-> calls, params |-> params, state |-> state,
     numSteps |-> numSteps, stepI |-> stepI, ctxt |-> ctxt, status |-> status, err |-> err,
     last |-> last, before |-> before, iterations |-> iterations, hostOps |-> hostOps,
     gasCharged |-> gasCharged, result |-> result, stepErr |-> stepErr,
     stateIn |-> stateIn, stepLog |-> stepLog, poolAtEntry |-> poolAtEntry]

\* the call in progress is about to enter the handler of STATICCALL
AtHostCall ==
    /\ phase \in {"run", "stepn"}
    /\ phase = "stepn" => status = statusRunning /\ stepI < numSteps
    /\ \E o \in stepsIteration(ctxt, phase = "stepn") :
           o.ran /\ o.op = STATICCALL /\ o.err = NoErr

\* whether a code holds the opcode
HasOp(code, op) == \E i \in 1..Len(code) : code[i] = op

\* the calls of Init that reach a STATICCALL with gas to run it, and the
\* calls on codes of at most one byte, which take the other exits
InitNested ==
    /\ Init
    /\ params # NoParams =>
           /\ params.Gas = 30000
           /\ HasOp(params.Code, STATICCALL) \/ Len(params.Code) <= 1
    /\ state # NoState =>
           /\ state.Gas = 30000
           /\ state.Pc = 0
           /\ HasOp(state.Code, STATICCALL) \/ Len(state.Code) <= 1

\* the host re-enters the engine: the call in progress is suspended
NestedCall(p) ==
    /\ AtHostCall
    /\ Len(frames) < MaxDepth
    /\ nestedCalls < MaxNestedCalls
    /\ frames' = Append(frames, CallFrame)
    /\ nestedCalls' = nestedCalls + 1
    /\ phase' = "idle"
    /\ calls' = 0
    /\ params' = p
    /\ state' = NoState
    /\ numSteps' = 0
    /\ stepI' = 0
    /\ ctxt' = NoCtxt
    /\ status' = statusRunning
    /\ err' = NoErr
    /\ last' = NoPass
    /\ before' = NoCtxt
    /\ iterations' = 0
    /\ hostOps' = 0
    /\ gasCharged' = 0
    /\ result' = NoResult
    /\ stepErr' = NoErr
    /\ stateIn' = NoState
    /\ stepLog' = <<>>
    /\ poolAtEntry' = NoPool
    /\ UNCHANGED <<scanVars, analyzeVars, engineVars, convVars, gasVars, dbVars>>

\* the nested call has returned: the suspended call goes on in its handler
NestedReturn ==
    /\ frames # <<>>
    /\ phase = "returned"
    /\ LET f == frames[Len(frames)]
       IN  /\ phase' = f.phase
           /\ calls' = f.calls
           /\ params' = f.params
           /\ state' = f.state
           /\ numSteps' = f.numSteps
           /\ stepI' = f.stepI
           /\ ctxt' = f.ctxt
           /\ status' = f.status
           /\ err' = f.err
           /\ last' = f.last
           /\ before' = f.before
           /\ iterations' = f.iterations
           /\ hostOps' = f.hostOps
           /\ gasCharged' = f.gasCharged
           /\ result' = f.result
           /\ stepErr' = f.stepErr
           /\ stateIn' = f.stateIn
           /\ stepLog' = f.stepLog
           /\ poolAtEntry' = f.poolAtEntry
    /\ frames' = SubSeq(frames, 1, Len(frames) - 1)
    /\ UNCHANGED <<scanVars, analyzeVars, engineVars, nestedCalls, convVars, gasVars, dbVars>>

NextNested ==
    \/ Run
    \/ RunIteration
    \/ RunReturn
    \/ \E n \in 0..MaxSteps : StepN(n)
    \/ StepNIteration
    \/ StepNReturn
    \/ \E p \in NestedParams : NestedCall(p)
    \/ NestedReturn

SpecNested == InitNested /\ [][NextNested]_vars

\* a call in this phase holds a stack of the pool
HoldsStack(ph) == ph \in {"run", "executed", "stepn"}

\* number of stacks taken from the pool and not given back
StacksOutstanding == stacksAcquired - stacksReturned

\* C12: the stacks outstanding are exactly those of the calls in progress,
\* one for each call that is past its entry checks and has not returned, the
\* suspended ones included; so a call that has returned, on any exit path,
\* has given back the one stack it acquired, a call that ended at an entry
\* check has acquired none, and the number outstanding after a call is the
\* number before it.
\* the call in progress has returned
CallReturned == phase = "returned" \/ (phase = "idle" /\ state # NoState /\ calls > 0)

\* the call in progress took an exit that comes before the context is set
\* up: an unsupported revision, empty code, a state that is not running
ReturnedAtEntry ==
    \/ phase = "returned" /\ (unsupportedRevision(params.Revision) \/ params.Code = <<>>)
    \/ /\ phase = "idle" /\ state # NoState /\ calls > 0
       /\ (unsupportedRevision(stateIn.Revision) \/ stateIn.Status # ctRunning)

StacksReturnedOnEveryPath ==
    /\ StacksOutstanding = Len(frames) + (IF HoldsStack(phase) THEN 1 ELSE 0)
    /\ \A i \in 1..Len(frames) : HoldsStack(frames[i].phase)
    /\ CallReturned =>
          /\ StacksOutstanding = poolAtEntry.acquired - poolAtEntry.returned
          /\ IF ReturnedAtEntry
             THEN /\ stacksAcquired = poolAtEntry.acquired
                  /\ stacksReturned = poolAtEntry.returned
             ELSE /\ stacksAcquired > poolAtEntry.acquired
                  /\ stacksReturned > poolAtEntry.returned

\* a failed call, nested in a call that is nested itself, has returned its
\* stack while the two suspended calls hold theirs
StacksReturnedOnEveryPathWitness ==
    /\ Len(frames) = 2
    /\ phase = "returned"
    /\ status = statusFailed
    /\ stacksAcquired = 3
    /\ stacksReturned = 1

\* ------------------------------------------------------------------------
\* SpecConv: the conversions of ct.go applied to sfvm stacks and memories,
\* to ct form and back.
\* ------------------------------------------------------------------------
\* largest stack converted
MaxConvLen == 3

ConvStacks == SeqsUpTo({0, 1, 2}, MaxConvLen)

\* sizes in bytes the memories are grown to: none, one and two words, and
\* around the 23 words from which on the quadratic term of the cost counts
ConvSizes == {0, 1, 33, 704, 705, 768}

\* the memories a context can hold: NewMemory grown to a size, with a byte
\* written at one of its ends
ConvMemories ==
    {LET m == expandMemory([gas |-> 30000, memory |-> NewMemory], 0, n).c.memory
     IN  [m EXCEPT !.store = [i \in 1..Len(@) |->
                                 IF (i = 1 /\ b = 1) \/ (i = Len(@) /\ b = 2) THEN 7
                                 ELSE @[i]]]
     : n \in ConvSizes, b \in 0..2}

InitConv ==
    /\ convIn \in [stack : ConvStacks, memory : ConvMemories]
    /\ convCt = NoConv
    /\ convOut = NoConv
    /\ ScanIdle
    /\ AnalyzeIdle
    /\ NestIdle
    /\ GasIdle
    /\ DbIdle
    /\ EngineInit
    /\ CallIdle

\* StepN's write-back of the stack and the memory
ToCt ==
    /\ convCt = NoConv
    /\ convCt' = [stack |-> convertSfvmStackToCtStack(convIn.stack),
                  memory |-> convertSfvmMemoryToCtMemory(convIn.memory)]
    /\ UNCHANGED <<convIn, convOut, scanVars, engineVars, callVars, analyzeVars, nestVars, gasVars, dbVars>>

\* StepN's set-up of the stack and the memory of the context
ToSfvm ==
    /\ convCt # NoConv
    /\ convOut = NoConv
    /\ convOut' = [stack |-> convertCtStackToSfvmStack(convCt.stack),
                   memory |-> convertCtMemoryToSfvmMemory(convCt.memory)]
    /\ UNCHANGED <<convIn, convCt, scanVars, engineVars, callVars, analyzeVars, nestVars, gasVars, dbVars>>

NextConv == ToCt \/ ToSfvm

SpecConv == InitConv /\ [][NextConv]_vars

\* C13: an sfvm stack converted to a ct stack and back has the same length
\* and the same value at every depth, and the top of the one is the top of
\* the other (Get(0) of a ct stack); an sfvm memory converted to a ct memory
\* and back has the same bytes, the same word-aligned length and the same
\* cost counter C(w) = 3w + w*w/512 for w = length/32.
ConversionsRoundTrip ==
    /\ convCt # NoConv =>
          /\ Len(convCt.stack) = Len(convIn.stack)
          /\ \A d \in 0..(Len(convIn.stack) - 1) :
                 convCt.stack[d + 1] = peek(convIn.stack, d)
          /\ convCt.memory = convIn.memory.store
    /\ convOut # NoConv =>
          /\ Len(convOut.stack) = Len(convIn.stack)
          /\ \A d \in 0..(Len(convIn.stack) - 1) :
                 peek(convOut.stack, d) = peek(convIn.stack, d)
          /\ convOut.memory.store = convIn.memory.store
          /\ Len(convOut.memory.store) % 32 = 0
          /\ convOut.memory.currentMemoryCost = convIn.memory.currentMemoryCost
          /\ LET w == Len(convOut.memory.store) \div 32
             IN  convOut.memory.currentMemoryCost = 3 * w + (w * w) \div 512

\* a stack of three different values and a memory of 24 words, whose cost
\* has a quadratic part, converted there and back
ConversionsRoundTripWitness ==
    /\ convOut # NoConv
    /\ convIn.stack = <<0, 1, 2>>
    /\ convCt.stack = <<2, 1, 0>>
    /\ Len(convIn.memory.store) = 768
    /\ convIn.memory.store[768] = 7
    /\ convOut.memory.currentMemoryCost = 73

\* ------------------------------------------------------------------------
\* Properties of single-step mode (Spec, the calls of StepN).
\* ------------------------------------------------------------------------
\* a call of StepN is in its loop or has returned
InStepN == phase = "stepn" \/ (phase = "idle" /\ state # NoState /\ calls > 0)

\* the opcodes whose case sets a status other than Running
Terminating == {STOP, RETURN, REVERT, SELFDESTRUCT}

\* C14: each execute(ctxt, true) of StepN makes exactly one pass of the loop
\* (so at most one fetch, one stack-limit check, one gas charge, one
\* handler): the passes made are as many as the turns of StepN's loop, at
\* most numSteps; the status after a pass is Running iff the pass ran an
\* instruction that neither failed nor ended the execution; and once the
\* status is not Running no further pass is made.
SingleStep ==
    InStepN =>
        /\ iterations = stepI
        /\ stepI <= numSteps
        /\ iterations > 0 =>
              ( status = statusRunning
                  <=> last.ran /\ err = NoErr /\ last.op \notin Terminating )
        /\ status # statusRunning \/ stepI >= numSteps => ~ENABLED StepNIteration
        /\ phase = "idle" /\ ctxt # NoCtxt /\ status = statusRunning /\ iterations > 0 =>
              iterations = numSteps

\* two single steps made, both left the status Running
SingleStepWitness ==
    /\ phase = "stepn"
    /\ numSteps = 2
    /\ stepI = 2
    /\ iterations = 2
    /\ status = statusRunning
    /\ last.ran

\* ------------------------------------------------------------------------
\* The analysis cache used by one caller: the analysis is constructed
\* (newAnalysis(size), or the analysis{} newVm leaves without a cache), then
\* analyzeJumpDest is called on it, one call after the other.
\* ------------------------------------------------------------------------
MaxLruCalls == 5

\* capacities handed to newAnalysis
LruSizes == {-1, 0, 1, 2}

LruCodes == {<<STOP>>, <<JUMPDEST, STOP>>, <<JUMPDEST, JUMPDEST>>}

\* the hashes a code is handed in with: its own, and for two of the codes
\* also none
LruHashes(code) ==
    IF code = <<JUMPDEST, JUMPDEST>> THEN {HashOf(code)} ELSE {NilHash, HashOf(code)}

\* the construction of the analysis: with a cache of the capacity asked for
\* or without one, and whether it panicked
NewEvent(by, arg, withCache, size, panic) ==
    [kind |-> "new", by |-> by, arg |-> arg, withCache |-> withCache, size |-> size,
     panic |-> panic]

Constructed == log # <<>> /\ log[1].kind = "new"

InitLru ==
    /\ vmConfig = [withShaCache |-> FALSE, withAnalysisCache |-> FALSE]
    /\ cache = NilCache
    /\ heap = <<>>
    /\ cacheGets = 0
    /\ cacheAdds = 0
    /\ stacksAcquired = 0
    /\ stacksReturned = 0
    /\ callers = [t \in Callers |-> IdleCaller]
    /\ log = <<>>
    /\ ScanIdle
    /\ CallIdle
    /\ NestIdle
    /\ ConvIdle
    /\ GasIdle
    /\ DbIdle

\* newAnalysis(size)
NewAnalysis(size) ==
    /\ log = <<>>
    /\ LET r == newAnalysis(size)
       IN  /\ cache' = r.cache
           /\ log' = <<NewEvent("newAnalysis", "", TRUE, size, r.panic)>>
    /\ UNCHANGED <<scanVars, callVars, nestVars, convVars, gasVars, dbVars, callers, vmConfig, heap, cacheGets,
                   cacheAdds, stacksAcquired, stacksReturned>>

\* newVm of a configuration without the analysis cache: analysis{}
NoAnalysis ==
    /\ log = <<>>
    /\ LET vm == newVm([withShaCache |-> TRUE, withAnalysisCache |-> FALSE])
       IN  /\ vmConfig' = vm.config
           /\ cache' = vm.cache
           /\ log' = <<NewEvent("newVm", "", FALSE, 0, FALSE)>>
    /\ UNCHANGED <<scanVars, callVars, nestVars, convVars, gasVars, dbVars, callers, heap, cacheGets, cacheAdds,
                   stacksAcquired, stacksReturned>>

\* what a caller may hand to NewInterpreter or to the factory
FactoryArgs == {"Config{}", "withAnalysisCache=false"}

\* NewInterpreter(arg), or tosca.NewInterpreter("sfvm", arg) through the
\* factory: the engine whose analysis the calls then use
Construct(by, arg) ==
    /\ log = <<>>
    /\ LET r == IF by = "NewInterpreter" THEN NewInterpreter(arg) ELSE sfvmFactory(arg)
       IN  /\ r.err = NoErr
           /\ vmConfig' = r.vm.config
           /\ cache' = r.vm.cache
           /\ log' = <<NewEvent(by, arg, r.vm.config.withAnalysisCache,
                                IF r.vm.cache = NilCache THEN 0 ELSE r.vm.cache.size, FALSE)>>
    /\ UNCHANGED <<scanVars, callVars, nestVars, convVars, gasVars, dbVars, callers, heap, cacheGets, cacheAdds,
                   stacksAcquired, stacksReturned>>

\* a.analyzeJumpDest(code, codehash) on the analysis constructed
Analyze(code, codehash) ==
    /\ Constructed
    /\ ~log[1].panic
    /\ CallsMade < MaxLruCalls
    /\ LET a == analyzeJumpDest(cache, heap, code, codehash)
       IN  /\ cache' = a.cache
           /\ heap' = a.heap
           /\ cacheGets' = cacheGets + a.gets
           /\ cacheAdds' = cacheAdds + a.adds
           /\ log' = log \o
                  <<[kind |-> "call", caller |-> 0, code |-> code, codehash |-> codehash,
                     ref |-> 0, computed |-> FALSE],
                    [kind |-> "ret", caller |-> 0, code |-> code, codehash |-> codehash,
                     ref |-> a.ref, computed |-> a.gets = 0 \/ a.adds = 1]>>
    /\ UNCHANGED <<scanVars, callVars, nestVars, convVars, gasVars, dbVars, callers, vmConfig, stacksAcquired,
                   stacksReturned>>

NextLru ==
    \/ \E size \in LruSizes : NewAnalysis(size)
    \/ NoAnalysis
    \/ \E by \in {"NewInterpreter", "sfvmFactory"}, arg \in FactoryArgs : Construct(by, arg)
    \/ \E code \in LruCodes :
           \E codehash \in LruHashes(code) : Analyze(code, codehash)

SpecLru == InitLru /\ [][NextLru]_vars

\* the returns of the calls made with a hash on an analysis that has a cache:
\* the uses of the cache, as positions in the log
CacheUses ==
    IF cache = NilCache THEN {}
    ELSE {i \in 1..Len(log) : log[i].kind = "ret" /\ log[i].codehash # NilHash}

UsesOf(h) == {i \in CacheUses : log[i].codehash = h}

UsedHashes == {log[i].codehash : i \in CacheUses}

MaxOf(S) == CHOOSE x \in S : \A y \in S : y <= x

LastUse(h) == MaxOf(UsesOf(h))

\* the use of the same hash before use i, 0 if there is none
PreviousUse(i) ==
    LET earlier == {j \in UsesOf(log[i].codehash) : j < i}
    IN  IF earlier = {} THEN 0 ELSE MaxOf(earlier)

\* the hashes other than that of use i used since its previous use
UsedBetween(i) ==
    {log[j].codehash : j \in {k \in CacheUses : PreviousUse(i) < k /\ k < i}}

\* C15: the cache never holds more entries than its capacity; it holds the
\* hashes used most recently (a hit of Get and an insertion both being a use),
\* most recent first, as many as the capacity allows, so that an insertion
\* into a full cache evicts the least recently used entry and no other; and a
\* call returns the instance its hash returned before (a hit) exactly if
\* fewer other hashes than the capacity were used since, a new instance
\* otherwise.
LruEviction ==
    cache # NilCache =>
        /\ Len(cache.items) <= cache.size
        /\ Len(cache.items) = IF Cardinality(UsedHashes) < cache.size
                              THEN Cardinality(UsedHashes) ELSE cache.size
        /\ \A k \in 1..Len(cache.items) :
               /\ cache.items[k].key \in UsedHashes
               /\ Cardinality({h \in UsedHashes : LastUse(h) > LastUse(cache.items[k].key)})
                      = k - 1
               /\ cache.items[k].value = log[LastUse(cache.items[k].key)].ref
        /\ \A i \in CacheUses :
               LET hit == PreviousUse(i) # 0 /\ Cardinality(UsedBetween(i)) < cache.size
               IN  /\ log[i].computed <=> ~hit
                   /\ hit => log[i].ref = log[PreviousUse(i)].ref
                   /\ ~hit => \A j \in 2..(i - 1) : log[j].kind = "ret" => log[j].ref # log[i].ref

\* a cache of capacity 2 after the calls A, B, A, C, A: the insertion of C
\* evicted B, the entry used least recently, and A still returns its instance
LruEvictionWitness ==
    /\ cache # NilCache
    /\ cache.size = 2
    /\ CallsMade = 5
    /\ log[3].codehash = HashOf(<<STOP>>)
    /\ log[5].codehash = HashOf(<<JUMPDEST, STOP>>)
    /\ log[7].codehash = HashOf(<<STOP>>) /\ ~log[7].computed
    /\ log[9].codehash = HashOf(<<JUMPDEST, JUMPDEST>>) /\ log[9].computed
    /\ log[11].codehash = HashOf(<<STOP>>) /\ ~log[11].computed /\ log[11].ref = log[3].ref
    /\ [c \in 1..2 |-> cache.items[c].key] = <<HashOf(<<STOP>>), HashOf(<<JUMPDEST, JUMPDEST>>)>>

\* C16: newAnalysis panics exactly for a capacity that is not positive (zero
\* or negative); the panic leaves no cache and no call can be made on the
\* analysis; a positive capacity gives an empty cache of that capacity, on
\* which calls are served.
NewAnalysisPanics ==
    Constructed /\ log[1].withCache =>
        /\ log[1].panic <=> log[1].size <= 0
        /\ log[1].panic => cache = NilCache /\ CallsMade = 0 /\ ~ENABLED NextLru
        /\ ~log[1].panic =>
              /\ cache # NilCache
              /\ cache.size = log[1].size
              /\ CallsMade = 0 => cache.items = <<>>
              /\ CallsMade < MaxLruCalls => ENABLED NextLru

\* newAnalysis(-1) has panicked
NewAnalysisPanicsWitness ==
    /\ Constructed
    /\ log[1].withCache
    /\ log[1].size = -1
    /\ log[1].panic
    /\ cache = NilCache

\* the last call of analyzeJumpDest had no cache to use or no hash
LastCallUncached ==
    /\ CallsMade > 0
    /\ cache = NilCache \/ log[Len(log)].codehash = NilHash

\* the references returned by the calls before the last one
ReturnedBefore == {log[i].ref : i \in {j \in 2..(Len(log) - 2) : log[j].kind = "ret"}}

\* C17: a call of analyzeJumpDest with a nil hash, or on an analysis without
\* a cache, returns a bitmap computed in the call, an instance no earlier call
\* returned and the cache does not hold, and leaves the cache as it was:
\* same entries in the same order of recency, no Get and no Add.
UncachedCallIsFresh ==
    [][ LastCallUncached' /\ log' # log =>
            /\ cache' = cache
            /\ cacheGets' = cacheGets
            /\ cacheAdds' = cacheAdds
            /\ log'[Len(log')].computed
            /\ log'[Len(log')].ref \notin ReturnedBefore'
            /\ log'[Len(log')].ref \notin DOMAIN heap
            /\ cache # NilCache =>
                   \A k \in 1..Len(cache.items) : cache.items[k].value # log'[Len(log')].ref
            /\ heap'[log'[Len(log')].ref] = jumpDestAnalysisInternal(log'[Len(log')].code)
      ]_vars

\* two entries in a cache of capacity 2, then two calls for the code of the
\* older entry with a nil hash: two new instances, the cache as it was
UncachedCallIsFreshWitness ==
    /\ cache # NilCache
    /\ cache.size = 2
    /\ CallsMade = 4
    /\ log[3].codehash = HashOf(<<STOP>>)
    /\ log[5].codehash = HashOf(<<JUMPDEST, STOP>>)
    /\ log[7].codehash = NilHash /\ log[7].code = <<STOP>>
    /\ log[9].codehash = NilHash /\ log[9].code = <<STOP>>
    /\ Cardinality({log[3].ref, log[7].ref, log[9].ref}) = 3
    /\ [c \in 1..2 |-> cache.items[c].key] = <<HashOf(<<JUMPDEST, STOP>>), HashOf(<<STOP>>)>>
    /\ cacheGets = 2
    /\ cacheAdds = 2

\* the engine came from NewInterpreter or from the registered factory
FromConstructor == Constructed /\ log[1].by \in {"NewInterpreter", "sfvmFactory"}

\* C18: an engine obtained from NewInterpreter or from the factory registered
\* as "sfvm" has the sanctioned configuration whatever argument was passed
\* (withShaCache and withAnalysisCache both true) and an analysis cache of
\* capacity 2^30, the one cache every call on the engine uses (each call with
\* a hash looks it up); the construction returns no error for any argument.
SanctionedEngine ==
    /\ \A arg \in FactoryArgs : NewInterpreter(arg).err = NoErr /\ sfvmFactory(arg).err = NoErr
    /\ FromConstructor =>
          /\ vmConfig.withShaCache
          /\ vmConfig.withAnalysisCache
          /\ ~log[1].panic
          /\ cache # NilCache
          /\ cache.size = 1073741824
          /\ cacheGets = Cardinality(CacheUses)
          /\ Len(cache.items) = Cardinality(UsedHashes)

\* an engine from the factory, handed an argument asking for no analysis
\* cache: the second call for a code finds what the first one cached
SanctionedEngineWitness ==
    /\ FromConstructor
    /\ log[1].by = "sfvmFactory"
    /\ log[1].arg = "withAnalysisCache=false"
    /\ CallsMade = 2
    /\ log[3].codehash = HashOf(<<JUMPDEST, STOP>>)
    /\ log[5].codehash = HashOf(<<JUMPDEST, STOP>>)
    /\ log[5].ref = log[3].ref
    /\ cacheAdds = 1

\* ------------------------------------------------------------------------
\* The order of the checks in a pass of the loop (Spec).
\* ------------------------------------------------------------------------
\* a pass of the loop has been made in the call in progress
PassMade == iterations > 0 /\ before # NoCtxt /\ ctxt # NoCtxt

\* the instruction the last pass found at the program counter
FetchedOp == before.code[before.pc + 1]

\* the stack the last pass found is outside the limits of that instruction
StackLimitFails ==
    \/ Len(before.stack) < stackLimits(FetchedOp).min
    \/ Len(before.stack) > stackLimits(FetchedOp).max

\* the gas the last pass found does not pay the static price of it
StaticGasFails ==
    \/ before.gas < 0
    \/ before.gas < staticGas(before.params.Revision, FetchedOp)

\* C19: a pass of the loop checks the end of the code, fetches, checks the
\* stack limits, charges the static gas and runs the handler, in this order:
\* at the end of the code nothing else happens; an instruction that fails
\* the stack-limit check is not charged and not run, and the context is as
\* before the pass, also when the gas would not pay for it (the stack error
\* is raised); an instruction the gas does not pay for is not run and the
\* context is as before; otherwise the handler of the fetched instruction
\* runs on a context charged the static price.
LoopOrder ==
    PassMade =>
        IF before.pc >= Len(before.code)
        THEN /\ ~last.charged /\ ~last.ran
             /\ err = NoErr
             /\ ctxt = before
        ELSE /\ last.op = FetchedOp
             /\ StackLimitFails =>
                    /\ err \in {errStackUnderflow, errStackOverflow}
                    /\ ~last.charged /\ ~last.ran
                    /\ ctxt.gas = before.gas /\ ctxt.stack = before.stack
                    /\ ctxt.memory = before.memory /\ ctxt.pc = before.pc
             /\ ~StackLimitFails /\ StaticGasFails =>
                    /\ err = errOutOfGas
                    /\ ~last.charged /\ ~last.ran
                    /\ ctxt.gas = before.gas /\ ctxt.stack = before.stack
                    /\ ctxt.memory = before.memory /\ ctxt.pc = before.pc
             /\ ~StackLimitFails /\ ~StaticGasFails =>
                    /\ last.charged /\ last.ran
                    /\ err = NoErr =>
                           ctxt.gas <= before.gas - staticGas(before.params.Revision, FetchedOp)

\* JUMP on an empty stack with 5 gas (its price is 8): stack underflow
LoopOrderWitness ==
    /\ PassMade
    /\ before.pc < Len(before.code)
    /\ FetchedOp = JUMP
    /\ before.stack = <<>>
    /\ before.gas = 5
    /\ StackLimitFails /\ StaticGasFails
    /\ err = errStackUnderflow
    /\ ctxt = before

\* the last pass ran the handler of an instruction that sets a terminal
\* status
TerminatingRan == PassMade /\ last.ran /\ last.op \in Terminating

\* C20 as stated: after an instruction that sets a terminal status the pc is
\* still the address of that instruction.
PcKeptOnTermination ==
    TerminatingRan /\ err = NoErr => ctxt.pc = before.pc

\* C20: pc is incremented after every handler that returns no error, also
\* after one that sets a terminal status: after STOP, RETURN, REVERT or
\* SELFDESTRUCT the pc is the address of that instruction plus one when the
\* loop exits; it is the address of the instruction only if the handler
\* returned an error.
PcAdvancedOnTermination ==
    TerminatingRan =>
        /\ err = NoErr => ctxt.pc = before.pc + 1
        /\ err # NoErr => ctxt.pc = before.pc

\* Run of the code STOP has returned: Stopped, with pc = 1
PcAdvancedOnTerminationWitness ==
    /\ TerminatingRan
    /\ phase = "returned"
    /\ ctxt.code = <<STOP>>
    /\ last.op = STOP
    /\ status = statusStopped
    /\ err = NoErr
    /\ before.pc = 0
    /\ ctxt.pc = 1

\* ------------------------------------------------------------------------
\* The ways a call ends (Spec).
\* ------------------------------------------------------------------------
\* the last pass of the loop began at or beyond the end of the code
RanOffEnd == PassMade /\ before.pc >= Len(before.code)

\* C21: a pass that begins with pc >= len(code) ends the loop with status
\* Stopped and no error, having fetched nothing, checked no stack limit and
\* charged no gas (the context is as the pass found it); the result of the
\* run is then Success = true, GasLeft = the gas at that point, no output.
OffEndStops ==
    RanOffEnd =>
        /\ status = statusStopped
        /\ err = NoErr
        /\ last.op = -1 /\ ~last.charged /\ ~last.ran
        /\ ctxt = before
        /\ RunExecuted =>
              /\ result.err = NoErr
              /\ result.result.Success
              /\ result.result.GasLeft = before.gas
              /\ result.result.Output = <<>>

\* Run of the code PUSH1 without its data byte, with 100 gas: the second pass
\* begins at pc = 2 > len(code) = 1 and the run returns Success with 97 gas
OffEndStopsWitness ==
    /\ RanOffEnd
    /\ RunExecuted
    /\ params.Code = <<PUSH1>>
    /\ params.Gas = 100
    /\ before.pc = 2
    /\ iterations = 2
    /\ result.result.Success
    /\ result.result.GasLeft = 97

\* the last pass ran the handler of RETURN or REVERT
EndWithResultRan == PassMade /\ last.ran /\ last.op \in {RETURN, REVERT}

\* StepN has returned from its loop
StepNReturned == phase = "idle" /\ state # NoState /\ calls > 0 /\ ctxt # NoCtxt

\* C22: an error of the handler of RETURN or REVERT makes the call Failed
\* although the case of the instruction selects Returned or Reverted: execute
\* returns Failed, the result of Run is Success = false, GasLeft = 0,
\* GasRefund = 0 and no output, and StepN leaves the state Failed without
\* return data of the instruction.
HandlerErrorFails ==
    EndWithResultRan /\ err # NoErr =>
        /\ phase \in {"stepn", "returned", "idle"} => status = statusFailed
        /\ RunExecuted =>
              /\ result.err = NoErr
              /\ ~result.result.Success
              /\ result.result.GasLeft = 0
              /\ result.result.GasRefund = 0
              /\ result.result.Output = <<>>
        /\ StepNReturned =>
              /\ state.Status = ctFailed
              /\ state.ReturnData = stateIn.ReturnData

\* Run of REVERT over 65535 bytes of memory with 100 gas: the handler runs
\* out of gas after the case has selected Reverted; the run has Failed
HandlerErrorFailsWitness ==
    /\ EndWithResultRan
    /\ RunExecuted
    /\ params.Code = ProgRevertBig
    /\ last.op = REVERT
    /\ err = errOutOfGas
    /\ ctxt.gas > 0
    /\ status = statusFailed
    /\ result.result.GasLeft = 0

\* the opcodes that have a case in the switch of steps, of those modelled
SwitchCases ==
    {POP, PUSH0, PUSH1, PUSH2, JUMP, JUMPDEST, JUMPI, DUP1, MSTORE8, RETURN, REVERT,
     SSTORE, SELFDESTRUCT, STATICCALL, STOP}

\* the last pass fetched a byte that has no case in the switch
UnknownFetched ==
    PassMade /\ before.pc < Len(before.code) /\ FetchedOp \notin SwitchCases

\* what C23 says of the call in every case: it has Failed, with the result
\* Success = false, GasLeft = 0 and no output, and the stack, the memory and
\* pc are as the pass found them
UnknownFails ==
    /\ err # NoErr
    /\ ctxt.stack = before.stack
    /\ ctxt.memory = before.memory
    /\ ctxt.pc = before.pc
    /\ phase \in {"stepn", "returned", "idle"} => status = statusFailed
    /\ RunExecuted =>
          /\ ~result.result.Success
          /\ result.result.GasLeft = 0
          /\ result.result.Output = <<>>
    /\ StepNReturned => state.Status = ctFailed

\* C23 as stated: fetching a byte without a case ends the call with the
\* invalid-opcode error.
UnknownOpcodeIsInvalid ==
    UnknownFetched => err = errInvalidOpCode /\ UnknownFails

\* C23: fetching a byte without a case ends the call Failed with the stack,
\* the memory and pc untouched; the error is the invalid-opcode error if the
\* static gas charge, which comes before the switch, succeeds, and the
\* out-of-gas error of that charge if it does not, as with negative gas.
UnknownOpcodeFails ==
    UnknownFetched =>
        /\ ~StaticGasFails => err = errInvalidOpCode /\ last.ran
        /\ StaticGasFails => err = errOutOfGas /\ ~last.ran
        /\ before.gas < 0 => StaticGasFails
        /\ UnknownFails

\* Run of INVALID with 100 gas has failed with the invalid-opcode error
UnknownOpcodeFailsWitness ==
    /\ UnknownFetched
    /\ RunExecuted
    /\ FetchedOp = INVALID
    /\ before.gas = 100
    /\ err = errInvalidOpCode
    /\ status = statusFailed
    /\ result.result.GasLeft = 0

\* ------------------------------------------------------------------------
\* context.useGas on its own: a context with some gas, and calls of useGas
\* with any amounts, one after the other.
\* ------------------------------------------------------------------------
MaxGasCalls == 3

\* gas levels and amounts: negative, zero, and values below, at and above
\* one another
GasLevels == {-1, 0, 1, 2, 5}
GasAmounts == {-1, 0, 1, 2, 5, 6}

InitGas ==
    /\ gasStart \in GasLevels
    /\ gasLevel = gasStart
    /\ gasCalls = <<>>
    /\ DbIdle
    /\ ScanIdle
    /\ AnalyzeIdle
    /\ NestIdle
    /\ ConvIdle
    /\ EngineInit
    /\ CallIdle

\* c.useGas(amount)
UseGas(amount) ==
    /\ Len(gasCalls) < MaxGasCalls
    /\ LET g == useGas(gasLevel, amount)
       IN  /\ gasLevel' = g.gas
           /\ gasCalls' = Append(gasCalls, [gas |-> gasLevel, amount |-> amount,
                                            err |-> g.err, left |-> g.gas])
    /\ UNCHANGED <<gasStart, scanVars, engineVars, callVars, analyzeVars, nestVars, convVars, dbVars>>

NextGas == \E amount \in GasAmounts : UseGas(amount)

SpecGas == InitGas /\ [][NextGas]_vars

Ended == state # NoState /\ state.Status # ctRunning

\* C25: while the state is not Running, a call of StepN with any number of
\* steps returns it with every field as it was and executes nothing (no
\* context is set up, no stack taken, the cache not looked up, no pass of
\* the loop made); its error is nil unless the revision is not supported.
\* So after a call of StepN that left Stopped, Reverted or Failed all later
\* calls leave the state as it is.
EndedIsAbsorbing ==
    [][ Ended =>
            /\ state' = state
            /\ phase' = "idle"
            /\ iterations' = 0
            /\ UNCHANGED <<engineVars, ctxt>>
            /\ stepErr' = IF unsupportedRevision(state.Revision)
                          THEN errUnsupportedRevision ELSE NoErr
      ]_vars

\* StepN has run REVERT, which left the state Reverted, and a second call,
\* for two steps, has returned the state as the first call left it
EndedIsAbsorbingWitness ==
    /\ phase = "idle"
    /\ calls = 2
    /\ numSteps = 2
    /\ state.Code = <<REVERT, STOP>>
    /\ stateIn.Status = ctReverted
    /\ state = stateIn
    /\ iterations = 0
    /\ stepErr = NoErr

\* ------------------------------------------------------------------------
\* The jumpDestMap on its own: a map made by newJumpDestMap (or a nil map),
\* and calls of markJumpDest with any indices.
\* ------------------------------------------------------------------------
MaxMarks == 2

\* code sizes around the word size of the bitmap, and the size of
\* TestAnalysis_MarkJumpDestAndIsJumpDest
MapSizes == {0, 1, 10, 63, 64, 65, 128}

\* indices below, at and beyond those sizes
MapIndices == {0, 2, 9, 10, 18, 62, 63, 64, 65, 127, 128, 129}

InitMarks ==
    /\ scanCode = <<>>
    /\ scanResult \in {NilMap} \cup {newJumpDestMap(size) : size \in MapSizes}
    /\ marks = <<>>
    /\ EngineInit
    /\ CallIdle
    /\ AnalyzeIdle
    /\ NestIdle
    /\ ConvIdle
    /\ GasIdle
    /\ DbIdle

\* a.markJumpDest(idx), on a map that is not nil
MarkJumpDest(idx) ==
    /\ scanResult # NilMap
    /\ Len(marks) < MaxMarks
    /\ scanResult' = markJumpDest(scanResult, idx)
    /\ marks' = Append(marks, idx)
    /\ UNCHANGED <<scanCode, engineVars, callVars, analyzeVars, nestVars, convVars, gasVars, dbVars>>

NextMarks == \E idx \in MapIndices : MarkJumpDest(idx)

SpecMarks == InitMarks /\ [][NextMarks]_vars

Marked == {marks[k] : k \in 1..Len(marks)}

\* the indices whose bit is set in the bitmap, whatever the code size
BitsSet(a) ==
    {64 * (x[1] - 1) + x[2] :
        x \in {y \in (1..Len(a.bitmap)) \X (0..63) : y[2] \in a.bitmap[y[1]]}}

\* C26: on a map of code size s, isJumpDest(i) is true exactly for the
\* indices i < s that were marked, so a mark at i < s makes isJumpDest(i)
\* true and changes no other index; marks at indices >= s leave the bitmap
\* as it is (no bit at or beyond s is set, also where the last word has
\* room); every index < s falls within the s/64 + 1 words of the bitmap;
\* isJumpDest on a nil map is false.
BitmapBounds ==
    /\ \A i \in MapIndices : ~isJumpDest(NilMap, i)
    /\ scanCode = <<>> /\ scanResult # NilMap =>
          /\ Len(scanResult.bitmap) = (scanResult.codeSize \div 64) + 1
          /\ \A i \in 0..(scanResult.codeSize + 66) :
                 isJumpDest(scanResult, i) <=> i < scanResult.codeSize /\ i \in Marked
          /\ BitsSet(scanResult) = {i \in Marked : i < scanResult.codeSize}
          /\ \A i \in 0..(scanResult.codeSize - 1) :
                 idxToAnalysisIdxAndMask(i)[1] + 1 \in 1..Len(scanResult.bitmap)

\* the map of the test: size 10, marked at 2 and at 18
BitmapBoundsWitness ==
    /\ scanCode = <<>>
    /\ scanResult # NilMap
    /\ scanResult.codeSize = 10
    /\ marks = <<2, 18>>
    /\ isJumpDest(scanResult, 2)
    /\ ~isJumpDest(scanResult, 18)
    /\ scanResult.bitmap = <<{2}>>

\* ------------------------------------------------------------------------
\* The cache and the analysis it stands for (SpecCache).
\* ------------------------------------------------------------------------
\* the map a has the code size and the jump destinations of the analysis of
\* the code
SameAnalysis(a, code) ==
    /\ a # NilMap
    /\ a.codeSize = Len(code)
    /\ \A i \in 0..(Len(code) + 66) :
           isJumpDest(a, i) <=> isJumpDest(jumpDestAnalysisInternal(code), i)

\* C27: with every hash handed in with one code only, for every capacity and
\* every interleaving of the callers (hits, misses, evictions, two callers
\* inserting the same hash), the bitmap a call of analyzeJumpDest(code, hash)
\* returned has the code size and the isJumpDest answers of a fresh analysis
\* of the code, and it has them in every later state, as has every bitmap
\* the cache holds: a bitmap is not modified once it exists.
CacheTransparent ==
    /\ \A i \in 1..Len(log) :
           log[i].kind = "ret" =>
               /\ log[i].ref \in DOMAIN heap
               /\ SameAnalysis(heap[log[i].ref], log[i].code)
    /\ cache # NilCache =>
           \A k \in 1..Len(cache.items) :
               /\ cache.items[k].value \in DOMAIN heap
               /\ SameAnalysis(heap[cache.items[k].value], cache.items[k].key.hash)

\* a cache of capacity 1: the code JUMPDEST STOP was cached, a call for the
\* code STOP evicted it, and a call for JUMPDEST STOP computed it again
CacheTransparentWitness ==
    /\ cache # NilCache
    /\ cache.size = 1
    /\ Len(log) = 6
    /\ log[2].kind = "ret" /\ log[2].codehash = HashOf(<<JUMPDEST, STOP>>) /\ log[2].computed
    /\ log[4].kind = "ret" /\ log[4].codehash = HashOf(<<STOP>>) /\ log[4].computed
    /\ log[6].kind = "ret" /\ log[6].codehash = HashOf(<<JUMPDEST, STOP>>) /\ log[6].computed
    /\ log[6].ref # log[2].ref
    /\ isJumpDest(heap[log[6].ref], 0)
    /\ isJumpDest(heap[log[2].ref], 0)

\* ------------------------------------------------------------------------
\* Successive calls of StepN (Spec).
\* ------------------------------------------------------------------------
\* a Running state with a memory of whole words and a pc of 16 bits
Composable(s) ==
    /\ s.Status = ctRunning
    /\ Len(s.Memory) % 32 = 0
    /\ s.Pc \in 0..65535

\* C28 as stated: for a Running state s with a memory of whole words,
\* StepN(s, a) followed by StepN(., b) leaves a state that StepN(s, a + b)
\* returns, in every field, the pc included; the states the two calls can
\* return are the states the one call can return; and StepN(s, 0) returns s
\* as it is.
StepsCompose ==
    /\ phase = "idle" /\ Len(stepLog) = 2 /\ Composable(stepLog[1].state) =>
          LET s == stepLog[1].state
              a == stepLog[1].n
              b == stepLog[2].n
          IN  /\ stateIn \in stepNStates(s, a)
              /\ state \in stepNStates(s, a + b)
              /\ stepNStates(s, a + b) = UNION {stepNStates(t, b) : t \in stepNStates(s, a)}
    /\ phase = "idle" /\ Len(stepLog) > 0 /\ Composable(stateIn)
           /\ stepLog[Len(stepLog)].n = 0 => state = stateIn

\* a state with the pc left out when it is not Running: the pc of such a
\* state is the one its last Running call was given
ButEndedPc(t) == IF t.Status = ctRunning THEN t ELSE [t EXCEPT !.Pc = 0]

\* the run ended in the second of two calls, after the first had moved the pc
EndedInSecondCall ==
    /\ phase = "idle" /\ Len(stepLog) = 2 /\ Composable(stepLog[1].state)
    /\ stateIn.Status = ctRunning
    /\ stateIn.Pc # stepLog[1].state.Pc
    /\ stepLog[2].n > 0
    /\ state.Status # ctRunning

\* C28: for a Running state s with a memory of whole words, StepN(s, a)
\* followed by StepN(., b) leaves the status, gas, refund, stack, memory,
\* last-call return data and return data that StepN(s, a + b) leaves, and the
\* same pc when the final status is Running; when the run ends in the second
\* call, the pc is the one that call was given, while StepN(s, a + b) leaves
\* the pc of s. StepN(s, 0) returns s as it is.
StepsComposeButPc ==
    /\ phase = "idle" /\ Len(stepLog) = 2 /\ Composable(stepLog[1].state) =>
          LET s == stepLog[1].state
              a == stepLog[1].n
              b == stepLog[2].n
              one == stepNStates(s, a + b)
              two == UNION {stepNStates(t, b) : t \in stepNStates(s, a)}
          IN  /\ stateIn \in stepNStates(s, a)
              /\ state \in stepNStates(stateIn, b)
              /\ ButEndedPc(state) \in {ButEndedPc(t) : t \in one}
              /\ {ButEndedPc(t) : t \in one} = {ButEndedPc(t) : t \in two}
              /\ state.Status = ctRunning => state \in one
              /\ \A t \in one : t.Status # ctRunning => t.Pc = s.Pc
    /\ EndedInSecondCall =>
          /\ state.Pc = stateIn.Pc
          /\ state \notin stepNStates(stepLog[1].state, stepLog[1].n + stepLog[2].n)
    /\ phase = "idle" /\ Len(stepLog) > 0 /\ Composable(stateIn)
           /\ stepLog[Len(stepLog)].n = 0 => state = stateIn

\* POP on the stack <<1>>: one step leaves pc = 1, one more step finds the
\* end of the code and stops with pc = 1; two steps in one call stop with the
\* pc of the start, and with everything else the same
StepsComposeButPcWitness ==
    /\ EndedInSecondCall
    /\ stepLog[1].state.Code = <<POP>>
    /\ stepLog[1].state.Pc = 0
    /\ stepLog[1].state.Stack = <<1>>
    /\ stepLog[1].n = 1 /\ stepLog[2].n = 1
    /\ state.Status = ctStopped
    /\ state.Pc = 1
    /\ state.Stack = <<>>
    /\ state.Gas = stepLog[1].state.Gas - 2
    /\ [state EXCEPT !.Pc = 0] \in stepNStates(stepLog[1].state, 2)

\* StepN has returned from a call that built a context and ran its loop
StepNRanLoop ==
    /\ StepNReturned
    /\ stateIn.Status = ctRunning
    /\ ~unsupportedRevision(stateIn.Revision)

\* C29: when StepN ends in a status that is not Running, state.Pc holds the
\* value the call was given, however far the context's pc has moved; the
\* status, gas, refund, stack, memory and last-call return data are those of
\* the context at the end of the loop; ReturnData is the context's return
\* data for Returned and Reverted and the value the call was given otherwise;
\* the pc of the context is written only for Running.
PcWrittenOnlyIfRunning ==
    StepNRanLoop =>
        /\ state.Status = convertSfvmStatusToCtStatus(status)
        /\ status # statusRunning => state.Pc = stateIn.Pc
        /\ status = statusRunning => state.Pc = ctxt.pc % 65536
        /\ state.Gas = ctxt.gas
        /\ state.GasRefund = ctxt.refund
        /\ state.Stack = convertSfvmStackToCtStack(ctxt.stack)
        /\ state.Memory = convertSfvmMemoryToCtMemory(ctxt.memory)
        /\ state.LastCallReturnData = ctxt.returnData
        /\ state.ReturnData = IF status \in {statusReturned, statusReverted}
                              THEN ctxt.returnData ELSE stateIn.ReturnData
        /\ state.Code = stateIn.Code
        /\ state.Revision = stateIn.Revision
        /\ state.ReadOnly = stateIn.ReadOnly

\* two steps of MSTORE8 STOP from pc = 0: Stopped, the context's pc is 2,
\* the state's pc still 0, the memory and the gas those of the context
PcWrittenOnlyIfRunningWitness ==
    /\ StepNRanLoop
    /\ stateIn.Code = <<MSTORE8, STOP>>
    /\ stateIn.Pc = 0
    /\ stateIn.Memory = <<>>
    /\ numSteps = 2 /\ stepI = 2
    /\ status = statusStopped
    /\ state.Status = ctStopped
    /\ ctxt.pc = 2
    /\ state.Pc = 0
    /\ Len(state.Memory) = 32
    /\ state.Gas < stateIn.Gas
    /\ state.Stack = <<>>

\* ------------------------------------------------------------------------
\* Termination of run (SpecFair).
\* ------------------------------------------------------------------------
\* the loop of steps and the return of run are code of one goroutine that is
\* not blocked (every host call returns): a pass that can be made is made
SpecFair == Init /\ [][Next]_vars /\ WF_vars(RunIteration) /\ WF_vars(RunReturn)

\* a pass of the loop of run after which the loop goes on
LoopGoesOn == phase = "run" /\ phase' = "run"

\* C30: every run returns: from the entry of the loop, whatever the code and
\* the gas, a pass ends the loop with a status that is not Running or with an
\* error, and run returns its result; every pass after which the loop goes on
\* has consumed at least one unit of gas and leaves the gas non-negative, so
\* the gas bounds the number of passes.
RunTerminates ==
    /\ (phase = "run") ~> (phase = "returned" /\ result # NoResult)
    /\ [][LoopGoesOn => ctxt'.gas < ctxt.gas /\ ctxt'.gas >= 0
                            /\ status' = statusRunning /\ err' = NoErr]_vars
    /\ [](phase = "run" => iterations <= ctxt.params.Gas - ctxt.gas)

\* the endless loop JUMPDEST PUSH1 0 JUMP with 100 gas has returned: eight
\* times round for 96 gas, then JUMPDEST and PUSH1 for the last 4, and no
\* gas for the JUMP
RunTerminatesWitness ==
    /\ phase = "returned"
    /\ params.Code = ProgSpin
    /\ params.Gas = 100
    /\ iterations = 27
    /\ last.op = JUMP /\ ~last.charged
    /\ err = errOutOfGas
    /\ before.gas = 0
    /\ ~result.result.Success
    /\ result.result.GasLeft = 0

\* ------------------------------------------------------------------------
\* The geth processor's stateDB: the refund counter and the snapshots
\* (SpecDb). The counter is a uint64; a value is written as the integer of
\* least magnitude congruent to it modulo 2^64, so that -1 stands for
\* 2^64 - 1 and a sum or difference of a few small amounts is exact.
\* ------------------------------------------------------------------------
MaxDbCalls == 4

\* the refunds added and subtracted
RefundAmounts == {1, 2}

\* the identifiers the host gives its snapshots: the host is free to number
\* them as it likes, and to give a number again
SnapshotIds == {0, 1, 2}

\* (a variant of revertToSnapshot that leaves the refund as it is)
revertToSnapshotKeepsRefund(s, snapshot) == s

\* stateDB.RevertToSnapshot, the stateDB after the host call: the refund is
\* s.refundBackups[snapshot], the zero value for a key the map has not
revertToSnapshot(s, snapshot) ==
    [s EXCEPT !.refund = IF snapshot \in DOMAIN s.refundBackups
                         THEN s.refundBackups[snapshot] ELSE 0]

InitDb ==
    /\ DbIdle
    /\ ScanIdle
    /\ AnalyzeIdle
    /\ NestIdle
    /\ ConvIdle
    /\ GasIdle
    /\ EngineInit
    /\ CallIdle

\* what a call made on the stateDB leaves in the variables
DbCall(method, arg, res, db, host) ==
    /\ stateDB' = db
    /\ hostCalls' = hostCalls \o host
    /\ dbCalls' = Append(dbCalls, [method |-> method, arg |-> arg, res |-> res,
                                   before |-> stateDB.refund, after |-> db.refund,
                                   host |-> host])
    /\ UNCHANGED <<scanVars, engineVars, callVars, analyzeVars, nestVars, convVars, gasVars>>

AddRefund(refund) ==
    /\ Len(dbCalls) < MaxDbCalls
    /\ DbCall("AddRefund", refund, 0, [stateDB EXCEPT !.refund = @ + refund], <<>>)

SubRefund(refund) ==
    /\ Len(dbCalls) < MaxDbCalls
    /\ DbCall("SubRefund", refund, 0, [stateDB EXCEPT !.refund = @ - refund], <<>>)

GetRefund ==
    /\ Len(dbCalls) < MaxDbCalls
    /\ DbCall("GetRefund", 0, stateDB.refund, stateDB, <<>>)

\* stateDB.Snapshot; id is what s.context.CreateSnapshot() returns
Snapshot(id) ==
    /\ Len(dbCalls) < MaxDbCalls
    /\ DbCall("Snapshot", 0, id,
              [stateDB EXCEPT !.refundBackups =
                  [k \in DOMAIN @ \cup {id} |-> IF k = id THEN stateDB.refund ELSE @[k]]],
              <<[method |-> "CreateSnapshot", id |-> id]>>)

RevertToSnapshot(snapshot) ==
    /\ Len(dbCalls) < MaxDbCalls
    /\ DbCall("RevertToSnapshot", snapshot, 0, revertToSnapshot(stateDB, snapshot),
              <<[method |-> "RestoreSnapshot", id |-> snapshot]>>)

NextDb ==
    \/ \E refund \in RefundAmounts : AddRefund(refund)
    \/ \E refund \in RefundAmounts : SubRefund(refund)
    \/ GetRefund
    \/ \E id \in SnapshotIds : Snapshot(id)
    \/ \E snapshot \in SnapshotIds : RevertToSnapshot(snapshot)

SpecDb == InitDb /\ [][NextDb]_vars

\* the calls of Snapshot, among the first n calls, that returned id
SnapshotsOf(id, n) ==
    {j \in 1..n : dbCalls[j].method = "Snapshot" /\ dbCalls[j].res = id}

\* the last of them
LastSnapshotOf(id, n) ==
    CHOOSE j \in SnapshotsOf(id, n) : \A k \in SnapshotsOf(id, n) : k <= j

\* the host calls made by the first n calls on the stateDB
RECURSIVE HostCallsOf(_)
HostCallsOf(n) == IF n = 0 THEN <<>> ELSE HostCallsOf(n - 1) \o dbCalls[n].host

\* C31: a RevertToSnapshot(id) whose id an earlier Snapshot() returned
\* leaves the refund, and so what GetRefund() returns next, equal to the
\* refund at the time of the Snapshot() that id came from (the last one that
\* returned it), whatever calls of AddRefund, SubRefund, Snapshot and
\* RevertToSnapshot were made in between; and that revert has made one host
\* call, RestoreSnapshot(id), so that the host has received as many
\* RestoreSnapshot calls as there were reverts, in their order.
RefundRolledBack ==
    /\ \A i \in 1..Len(dbCalls) :
           LET call == dbCalls[i]
           IN  /\ call.method = "RevertToSnapshot" =>
                      /\ call.host = <<[method |-> "RestoreSnapshot", id |-> call.arg]>>
                      /\ SnapshotsOf(call.arg, i - 1) # {} =>
                             call.after = dbCalls[LastSnapshotOf(call.arg, i - 1)].before
                      /\ i < Len(dbCalls) /\ dbCalls[i + 1].method = "GetRefund" =>
                             dbCalls[i + 1].res = call.after
               /\ call.method # "RevertToSnapshot" =>
                      \A k \in 1..Len(call.host) : call.host[k].method # "RestoreSnapshot"
               /\ call.method = "Snapshot" => call.after = call.before
    /\ hostCalls = HostCallsOf(Len(dbCalls))
    /\ stateDB.refund = IF dbCalls = <<>> THEN 0 ELSE dbCalls[Len(dbCalls)].after

\* Snapshot (0) at refund 0, AddRefund(2), Snapshot (1) inside it at refund
\* 2, RevertToSnapshot(0): the refund is 0 again and the host has been asked
\* once to restore snapshot 0
RefundRolledBackWitness ==
    /\ Len(dbCalls) = 4
    /\ dbCalls[1].method = "Snapshot" /\ dbCalls[1].res = 0
    /\ dbCalls[2].method = "AddRefund" /\ dbCalls[2].arg = 2
    /\ dbCalls[3].method = "Snapshot" /\ dbCalls[3].res = 1 /\ dbCalls[3].before = 2
    /\ dbCalls[4].method = "RevertToSnapshot" /\ dbCalls[4].arg = 0
    /\ dbCalls[4].before = 2
    /\ stateDB.refund = 0
    /\ hostCalls = <<[method |-> "CreateSnapshot", id |-> 0],
                     [method |-> "CreateSnapshot", id |-> 1],
                     [method |-> "RestoreSnapshot", id |-> 0]>>

====
